---- MODULE Spec2Model ----
(***************************************************************************)
(* Conversation state machine of the job-search assistant                  *)
(* (core/chat_orchestrator.py, ai/extraction.py, ai/role_resolver.py,      *)
(* jobs/job_cards.py, api/chat.py, memory/models.py).                      *)
(*                                                                         *)
(* Text is modelled word by word: a string is the sequence of its          *)
(* whitespace separated lower-case words, <<>> is the empty string or      *)
(* None (the code only tests these values for truthiness).  Character      *)
(* level tests (substring, prefix, title-casing) are tables over the       *)
(* words of the model's vocabulary, generated from the Python functions.   *)
(*                                                                         *)
(* The store is keyed the way the orchestrator calls it (one key per       *)
(* conversation); memory.store.clear_user_state replaces the state object  *)
(* of that key by default_state().  The chat log (memory, sessions, saved  *)
(* jobs) is written but never read by a modelled decision and is left out. *)
(***************************************************************************)
EXTENDS Integers, Sequences, FiniteSets, TLC

None == "None"

(***************************************************************************)
(* Generic sequence helpers                                                *)
(***************************************************************************)
HasTok(s, w) == \E i \in 1..Len(s) : s[i] = w

HasPair(s, a, b) == \E i \in 1..(Len(s) - 1) : s[i] = a /\ s[i + 1] = b

\* s[i..] with the words before position i dropped
Drop(s, i) == IF i > Len(s) THEN <<>> ELSE SubSeq(s, i, Len(s))

Take(s, n) == IF n >= Len(s) THEN s ELSE SubSeq(s, 1, n)

RECURSIVE Flatten(_)
Flatten(ss) == IF ss = <<>> THEN <<>> ELSE Head(ss) \o Flatten(Tail(ss))

\* t occurs in s as a run of consecutive words
HasRun(s, t) ==
    \E i \in 1..(Len(s) - Len(t) + 1) : SubSeq(s, i, i + Len(t) - 1) = t

(***************************************************************************)
(* Character-level tables over the vocabulary                              *)
(***************************************************************************)
\* word -> the single-word needles of the code's `needle in text` tests
\* that occur inside the word
SubstrPairs ==
    { <<"1", "1">>, <<"barista", "barista">>, <<"chef", "chef">>,
      <<"customer", "customer">>, <<"data", "data">>, <<"design", "design">>,
      <<"full", "full">>, <<"gig", "gig">>, <<"internship", "intern">>,
      <<"internship", "internship">>, <<"part", "part">>,
      <<"people", "people">>, <<"ppc", "ppc">>, <<"assembly", "sem">>,
      <<"acquisition", "ui">>, <<"retail", "ai">>, <<"software", "software">>,
      <<"student", "student">>, <<"support", "support">>, <<"tech", "tech">>,
      <<"technician", "tech">>, <<"temporary", "temporary">>,
      <<"temporary", "temp">>, <<"thanks", "thanks">>, <<"waiter", "ai">>,
      <<"waiter", "waiter">> }

\* `needle in text` for a needle without a space
Contains(s, needle) == \E i \in 1..Len(s) : <<s[i], needle>> \in SubstrPairs

\* `needle in text` for a two-word needle "a b"; no word of the vocabulary
\* properly ends with a or properly starts with b
ContainsPhrase(s, a, b) == HasPair(s, a, b)

\* _clean_text: every non-alphanumeric character becomes a space
CleanTok(w) ==
    CASE w = "talk_yes" -> <<"talk", "yes">>
      [] w = "talk_no" -> <<"talk", "no">>
      [] w = "clarity_yes" -> <<"clarity", "yes">>
      [] w = "clarity_no" -> <<"clarity", "no">>
      [] w = "continue_search" -> <<"continue", "search">>
      [] w = "(junior)" -> <<"junior">>
      [] w = "(support)" -> <<"support">>
      [] OTHER -> <<w>>

_clean_text(s) == Flatten([i \in 1..Len(s) |-> CleanTok(s[i])])

(***************************************************************************)
(* ai/role_resolver.py                                                     *)
(***************************************************************************)
FILLER_WORDS ==
    {"job", "jobs", "role", "position", "work", "working",
     "in", "at", "for", "a", "an", "the", "as",
     "looking", "searching", "find", "me", "please",
     "i", "im", "i'm", "am", "want", "need"}

TIME_WORDS ==
    {"evening", "night", "overnight",
     "weekend", "weekends", "weekday", "weekdays",
     "seasonal", "temporary", "temp",
     "casual", "permanent",
     "contract", "agency", "bank",
     "shift", "shifts",
     "zero", "hour", "hours",
     "part", "full", "time"}

\* after _clean_text the hyphenated phrases cannot occur
TIME_PHRASES == {<<"part", "time">>, <<"full", "time">>, <<"zero", "hours">>}

\* the single-word members; "a job" is handled in strip_time_modifiers
BAD_ROLE_KEYWORDS ==
    {"job", "jobs", "work", "position", "role", "career", "employment"}

_tokenize(s) == _clean_text(s)

strip_fillers(text) ==
    SelectSeq(_tokenize(text), LAMBDA w : w \notin FILLER_WORDS)

\* Every pattern is replaced by a blank, so a later pattern matches only
\* words that were adjacent in the cleaned text.
strip_time_modifiers(text) ==
    LET s == _clean_text(text)
        InPhrase(i) ==
            \E ph \in TIME_PHRASES :
                \/ i < Len(s) /\ s[i] = ph[1] /\ s[i + 1] = ph[2]
                \/ i > 1 /\ s[i - 1] = ph[1] /\ s[i] = ph[2]
        Bad(i) ==
            \/ s[i] \in BAD_ROLE_KEYWORDS
            \/ s[i] = "a" /\ i < Len(s) /\ s[i + 1] = "job" /\ ~InPhrase(i)
        Kept(i) == ~InPhrase(i) /\ ~Bad(i) /\ s[i] \notin TIME_WORDS
    IN  Flatten([i \in 1..Len(s) |-> IF Kept(i) THEN <<s[i]>> ELSE <<>>])

\* ROLE_NORMALIZE_MAP: "waitress" -> "waiter", "waiting staff" -> "waiter"
RECURSIVE _apply_role_normalization(_)
_apply_role_normalization(s) ==
    IF s = <<>> THEN <<>>
    ELSE IF Len(s) >= 2 /\ s[1] = "waiting" /\ s[2] = "staff"
         THEN <<"waiter">> \o _apply_role_normalization(Drop(s, 3))
    ELSE IF s[1] = "waitress"
         THEN <<"waiter">> \o _apply_role_normalization(Tail(s))
    ELSE <<s[1]>> \o _apply_role_normalization(Tail(s))

\* the pipeline with the normalization moved to the front
canonicalize_role_normalizes_first(text) ==
    _clean_text(strip_time_modifiers(strip_fillers(_apply_role_normalization(text))))

canonicalize_role(text) ==
    _clean_text(_apply_role_normalization(strip_time_modifiers(strip_fillers(text))))

\* sorted canonical titles of the title dataset (a data file read at start-up)
_load_titles_canonical ==
    << <<"chef">>, <<"software", "developer">>, <<"waiter">> >>

\* len() of a canonical title in characters
TitleChars(t) ==
    CASE t = <<"chef">> -> 4
      [] t = <<"software", "developer">> -> 18
      [] t = <<"waiter">> -> 6
      [] t = <<"bar", "manager">> -> 11
      [] t = <<"kitchen", "porter">> -> 14
      [] OTHER -> 0

\* word w starts with q (len(q) >= 3 is tested by the caller); only equal
\* words of the vocabulary are prefixes of one another, except tech/technician
StartsWith(w, q) == w = q \/ (q = "tech" /\ w = "technician")

WordChars3(q) == q \notin {"1", "a", "hi", "in", "it", "no", "of"}

\* the first element of ts that is minimal for the measure M
FirstMin(ts, M(_)) ==
    ts[CHOOSE i \in 1..Len(ts) :
           \A j \in 1..Len(ts) :
               M(ts[i]) < M(ts[j]) \/ (M(ts[i]) = M(ts[j]) /\ i <= j)]

\* resolve_role_from_dataset over the canonical titles it has loaded:
\* titles is <<>> when the data file is absent
ResolveIn(titles, role_raw) ==
    LET query == canonicalize_role(role_raw)
        tset == {titles[i] : i \in 1..Len(titles)}
        contains_query == SelectSeq(titles, LAMBDA t : HasRun(t, query))
        contained_by_query == SelectSeq(titles, LAMBDA t : HasRun(query, t))
        Toks(t) == {t[i] : i \in 1..Len(t)}
        Score(t) == Cardinality(Toks(query) \cap Toks(t))
        \* list.sort is stable: the first of the shortest / of the longest
        Shortest(ts) == FirstMin(ts, LAMBDA t : TitleChars(t))
        Longest(ts) == FirstMin(ts, LAMBDA t : 0 - TitleChars(t))
        \* the loop keeps the first title of maximal score and, among
        \* those, of minimal length
        MaxScore == IF \E i \in 1..Len(titles) : Score(titles[i]) >= 1
                    THEN Score(FirstMin(titles, LAMBDA t : 0 - Score(t)))
                    ELSE 0
        Overlap ==
            IF MaxScore = 0 THEN <<>>
            ELSE Shortest(SelectSeq(titles, LAMBDA t : Score(t) = MaxScore))
        PrefixHits ==
            SelectSeq(titles,
                      LAMBDA t : \E i \in 1..Len(t), j \in 1..Len(query) :
                          WordChars3(query[j]) /\ StartsWith(t[i], query[j]))
    IN  IF titles = <<>> \/ query = <<>> THEN <<>>
        ELSE IF query \in tset THEN query
        ELSE IF contains_query # <<>> THEN Shortest(contains_query)
        ELSE IF contained_by_query # <<>> THEN Longest(contained_by_query)
        ELSE IF Overlap # <<>> THEN Overlap
        ELSE IF PrefixHits # <<>> THEN Head(PrefixHits)
        ELSE <<>>

resolve_role_from_dataset(role_raw) ==
    ResolveIn(_load_titles_canonical, role_raw)

build_search_keywords(canonical_role_or_title) ==
    LET s == canonicalize_role(canonical_role_or_title)
    IN  CASE s = <<"waiter">> ->
                 <<"waiter", "waitress", "waiting", "staff", "server",
                   "front", "of", "house">>
          [] s = <<"bartender">> ->
                 <<"bartender", "bar", "staff", "bar", "attendant">>
          [] s = <<"barista">> -> <<"barista", "coffee">>
          [] s = <<"chef">> -> <<"chef", "cook", "kitchen">>
          [] OTHER -> s

(***************************************************************************)
(* ai/extraction.py                                                        *)
(***************************************************************************)
\* str.title() word by word
TitlePairs ==
    { <<"1", "1">>, <<"a", "A">>, <<"actually", "Actually">>,
      <<"barista", "Barista">>, <<"chef", "Chef">>, <<"clarity", "Clarity">>,
      <<"confused", "Confused">>, <<"continue", "Continue">>,
      <<"developer", "Developer">>, <<"edinburgh", "Edinburgh">>,
      <<"engineer", "Engineer">>, <<"glasgow", "Glasgow">>, <<"hi", "Hi">>,
      <<"ideally", "Ideally">>, <<"junior", "Junior">>,
      <<"london", "London">>, <<"no", "No">>, <<"none", "None">>,
      <<"over", "Over">>, <<"search", "Search">>, <<"software", "Software">>,
      <<"start", "Start">>, <<"talk", "Talk">>, <<"thanks", "Thanks">>,
      <<"waiter", "Waiter">>, <<"yes", "Yes">>,
      <<"support", "Support">>, <<"technician", "Technician">>,
      <<"data", "Data">>, <<"analyst", "Analyst">>,
      <<"designer", "Designer">>, <<"research", "Research">>,
      <<"assistant", "Assistant">>, <<"marketing", "Marketing">>,
      <<"customer", "Customer">>, <<"advisor", "Advisor">>,
      <<"recruitment", "Recruitment">>, <<"resourcer", "Resourcer">>,
      <<"sales", "Sales">>, <<"administrative", "Administrative">>,
      <<"retail", "Retail">>, <<"product", "Product">>,
      <<"content", "Content">>, <<"account", "Account">>,
      <<"manager", "Manager">>, <<"team", "Team">>, <<"lead", "Lead">>,
      <<"recruiter", "Recruiter">>, <<"operations", "Operations">>,
      <<"coordinator", "Coordinator">>, <<"project", "Project">> }

\* display words that are not the title-case of their lower-case form
UpperPairs ==
    { <<"it", "IT">>, <<"ui", "UI">>, <<"ux", "UX">>,
      <<"(junior)", "(Junior)">>, <<"(support)", "(Support)">> }

TitleFn ==
    [w \in {p[1] : p \in TitlePairs} |-> (CHOOSE p \in TitlePairs : p[1] = w)[2]]

TitleTok(w) == TitleFn[w]

\* str.lower() word by word
LowerFn ==
    [w \in {p[2] : p \in TitlePairs \cup UpperPairs} |->
        (CHOOSE p \in TitlePairs \cup UpperPairs : p[2] = w)[1]]

LowerTok(w) == IF w \in DOMAIN LowerFn THEN LowerFn[w] ELSE w

Title(s) == [i \in 1..Len(s) |-> TitleTok(s[i])]

Lower(s) == [i \in 1..Len(s) |-> LowerTok(s[i])]

UK_CITIES ==
    << <<"Edinburgh">>, <<"Glasgow">>, <<"Dundee">>, <<"Aberdeen">>,
       <<"St", "Andrews">>, <<"London">>, <<"Manchester">>, <<"Bristol">>,
       <<"Leeds">>, <<"Liverpool">>, <<"Belfast">>, <<"Cardiff">> >>

STANDARD_INCOME_TYPES ==
    {"full-time", "part-time", "temporary", "freelance", "internship"}

\* the first key, in dictionary order, one of whose variants occurs in the text
normalize_income_type(low) ==
    IF \/ ContainsPhrase(low, "full", "time") \/ Contains(low, "full-time")
       \/ Contains(low, "permanent")
    THEN "full-time"
    ELSE IF \/ ContainsPhrase(low, "part", "time") \/ Contains(low, "part-time")
            \/ Contains(low, "casual") \/ ContainsPhrase(low, "zero", "hour")
            \/ Contains(low, "zero-hours") \/ ContainsPhrase(low, "zero", "hours")
    THEN "part-time"
    ELSE IF \/ Contains(low, "temporary") \/ Contains(low, "temp")
            \/ Contains(low, "short-term")
    THEN "temporary"
    ELSE IF \/ Contains(low, "freelance") \/ Contains(low, "gig")
            \/ Contains(low, "self-employed") \/ Contains(low, "contract")
    THEN "freelance"
    ELSE IF \/ Contains(low, "intern") \/ Contains(low, "internship")
            \/ Contains(low, "trainee")
    THEN "internship"
    ELSE None

\* ROLE_SYNONYMS in dictionary order: <<key, standard display name>>
ROLE_SYNONYMS ==
    << <<<<"app", "development">>, <<"Software", "Developer">>>>,
       <<<<"software", "engineer">>, <<"Software", "Developer">>>>,
       <<<<"web", "developer">>, <<"Software", "Developer">>>>,
       <<<<"frontend">>, <<"Frontend", "Developer">>>>,
       <<<<"backend">>, <<"Backend", "Developer">>>>,
       <<<<"ux">>, <<"UX", "Designer">>>>,
       <<<<"ui">>, <<"UI", "Designer">>>>,
       <<<<"data", "analyst">>, <<"Data", "Analyst">>>>,
       <<<<"data", "scientist">>, <<"Data", "Scientist">>>>,
       <<<<"mobile", "developer">>, <<"Mobile", "Developer">>>>,
       <<<<"it", "support">>, <<"IT", "Support", "Technician">>>>,
       <<<<"support", "technician">>, <<"IT", "Support", "Technician">>>>,
       <<<<"waiter">>, <<"Waiter">>>>,
       <<<<"waitress">>, <<"Waiter">>>>,
       <<<<"waiting", "staff">>, <<"Waiter">>>>,
       <<<<"server">>, <<"Waiter">>>>,
       <<<<"bar", "staff">>, <<"Bartender">>>>,
       <<<<"bartender">>, <<"Bartender">>>>,
       <<<<"barista">>, <<"Barista">>>>,
       <<<<"chef">>, <<"Chef">>>>,
       <<<<"cook">>, <<"Chef">>>>,
       <<<<"teacher">>, <<"Teacher">>>>,
       <<<<"driver">>, <<"Driver">>>>,
       <<<<"delivery", "driver">>, <<"Driver">>>>,
       <<<<"marketing">>, <<"Marketing", "Assistant">>>> >>

KeyIn(key, lowered) ==
    IF Len(key) = 1 THEN Contains(lowered, key[1])
    ELSE ContainsPhrase(lowered, key[1], key[2])

\* difflib ratio >= cutoff against a synonym key: no role of the vocabulary
\* that contains no key comes that close to one
FuzzySynonym(lowered) == <<>>

map_role_synonym(role_text) ==
    LET lowered == Lower(role_text)
        hits == SelectSeq(ROLE_SYNONYMS, LAMBDA kv : KeyIn(kv[1], lowered))
    IN  IF role_text = <<>> THEN <<>>
        ELSE IF hits # <<>> THEN Head(hits)[2]
        ELSE IF FuzzySynonym(lowered) # <<>> THEN FuzzySynonym(lowered)
        ELSE Title(role_text)

\* difflib.get_close_matches(loc, UK_CITIES, n=1, cutoff=0.7): of the
\* vocabulary only the city names themselves are that close to a city
_best_city_match(loc) ==
    LET t == Title(loc)
        matches == SelectSeq(UK_CITIES, LAMBDA c : c = t)
    IN  IF t = <<>> THEN <<>>
        ELSE IF matches # <<>> THEN Head(matches)
        ELSE t

\* the fillers of the list that are one word, and those that are two words;
\* "looking for" and "looking at" cannot match once "looking" is removed
ExtractionFillers1 ==
    {"i'm", "im", "looking", "search", "a", "an", "the",
     "job", "jobs", "role", "position", "work", "please", "thanks"}

ExtractionFillers2 ==
    {<<"i", "am">>, <<"i", "want">>, <<"i", "need">>, <<"find", "me">>,
     <<"show", "me">>}

\* each filler is replaced by the empty string, leaving its blanks, so a
\* two-word filler matches only words adjacent in the original text
_strip_fillers(text) ==
    LET InPair(i) ==
            \E f \in ExtractionFillers2 :
                \/ i < Len(text) /\ text[i] = f[1] /\ text[i + 1] = f[2]
                \/ i > 1 /\ text[i - 1] = f[1] /\ text[i] = f[2]
        Gone(i) == InPair(i) \/ text[i] \in ExtractionFillers1
    IN  Flatten([i \in 1..Len(text) |-> IF Gone(i) THEN <<>> ELSE <<text[i]>>])

Connectors == {"while", "then", "but", "however", "until"}

\* the text before the first connector
_first_clause(text) ==
    LET idx == {i \in 1..Len(text) :
                    \/ text[i] \in Connectors
                    \/ i < Len(text) /\ text[i] = "and" /\ text[i + 1] = "then"
                    \/ i < Len(text) /\ text[i] = "so" /\ text[i + 1] = "that"}
        firstIdx == CHOOSE i \in idx : \A j \in idx : i <= j
        head == IF idx = {} THEN text ELSE Take(text, firstIdx - 1)
    IN  IF head = <<>> THEN text ELSE head

Separators == {"in", "near", "based"}

\* the words of a one- or two-word trigger of the first pattern
Triggers ==
    {<<"as", "a">>, <<"as", "an">>, <<"work", "as">>, <<"job", "as">>,
     <<"be", "a">>, <<"be", "an">>, <<"looking", "for">>, <<"find">>}

\* A separator match at word i: something before it and something after it.
\* "based in" is one separator.
SepLen(low, i) ==
    IF low[i] = "based" /\ i < Len(low) /\ low[i + 1] = "in" /\ i + 1 < Len(low)
    THEN 2 ELSE 1

\* (.+?) \s+ sep \s+ (.+?) STOP with the role starting at word `from`:
\* the role runs to the first separator that has a word after it, the
\* location from there to the next separator or the end
RoleLocFrom(low, from) ==
    LET seps == {i \in (from + 1)..(Len(low) - 1) : low[i] \in Separators}
        i == CHOOSE k \in seps : \A j \in seps : k <= j
        locStart == i + SepLen(low, i)
        stops == {k \in (locStart + 1)..Len(low) : low[k] \in Separators}
        locEnd == IF stops = {} THEN Len(low)
                  ELSE (CHOOSE k \in stops : \A j \in stops : k <= j) - 1
    IN  IF from > Len(low) \/ seps = {} THEN <<<<>>, <<>>>>
        ELSE <<SubSeq(low, from, i - 1), SubSeq(low, locStart, locEnd)>>

_extract_role_loc_regex(text) ==
    LET low == text
        trig == {<<i, t>> \in (1..Len(low)) \X Triggers :
                    /\ i + Len(t) - 1 <= Len(low)
                    /\ SubSeq(low, i, i + Len(t) - 1) = t
                    /\ RoleLocFrom(low, i + Len(t))[1] # <<>>}
        first == CHOOSE x \in trig : \A y \in trig : x[1] <= y[1]
    IN  IF trig # {} THEN RoleLocFrom(low, first[1] + Len(first[2]))
        ELSE RoleLocFrom(low, 1)

\* location fallback: sep \s+ (.+?) STOP, the separator may open the text
LocFallback(low) ==
    LET seps == {i \in 1..(Len(low) - 1) : low[i] \in Separators}
        i == CHOOSE k \in seps : \A j \in seps : k <= j
        locStart == i + SepLen(low, i)
        stops == {k \in (locStart + 1)..Len(low) : low[k] \in Separators}
        locEnd == IF stops = {} THEN Len(low)
                  ELSE (CHOOSE k \in stops : \A j \in stops : k <= j) - 1
    IN  IF seps = {} THEN <<>> ELSE SubSeq(low, locStart, locEnd)

\* \b £? \d+ ... : the first word that starts with digits
Digits == {"1", "2", "3", "4", "5"}

SalaryMatch(low) ==
    LET idx == {i \in 1..Len(low) : low[i] \in Digits}
    IN  IF idx = {} THEN <<>>
        ELSE <<low[CHOOSE i \in idx : \A j \in idx : i <= j]>>

(***************************************************************************)
(* memory/models.py, core/state_machine.py                                 *)
(***************************************************************************)
\* asked_questions is never read or written after construction and is left
\* out; the keys the orchestrator adds later (clarity_*, note) start absent
default_state ==
    [ phase |-> "discovery",
      role_raw |-> <<>>,
      role_keywords |-> <<>>,
      role_display |-> <<>>,
      role_canon |-> <<>>,
      role_query |-> <<>>,
      resolved_role |-> <<>>,
      location |-> <<>>,
      income_type |-> None,
      salary |-> <<>>,
      last_small_talk |-> <<>>,
      jobs_shown |-> FALSE,
      asked_income_type |-> FALSE,
      readiness |-> FALSE,
      current_deck |-> <<>>,
      cached_jobs |-> <<>>,
      clarity_level |-> None,
      clarity_interest |-> <<>>,
      clarity_constraints |-> <<>>,
      clarity_suggestions |-> <<>>,
      note |-> <<>> ]

REQUIRED_FIELDS == {"role_canon", "location"}

is_ready(state) == \A f \in REQUIRED_FIELDS : state[f] # <<>>

\* an advance_phase that moves the phase itself once the state is ready
advance_phase_owns_phase(state) ==
    [state EXCEPT !.readiness = is_ready(state),
                  !.phase = IF is_ready(state) THEN "searching" ELSE @]

advance_phase(state) == [state EXCEPT !.readiness = is_ready(state)]

Q_ROLE == "What role are you interested in?"
Q_LOCATION == "Which city or location do you prefer?"
Q_INCOME == "Are you looking for full-time or part-time work?"

\* the questions in the wrong order: the location before the role
next_discovery_question_location_first(state) ==
    IF state.location = <<>> THEN Q_LOCATION
    ELSE IF state.role_canon = <<>> THEN Q_ROLE
    ELSE IF state.income_type = None THEN Q_INCOME
    ELSE None

next_discovery_question(state) ==
    IF state.role_canon = <<>> THEN Q_ROLE
    ELSE IF state.location = <<>> THEN Q_LOCATION
    ELSE IF state.income_type = None THEN Q_INCOME
    ELSE None

(***************************************************************************)
(* core/chat_orchestrator.py: helpers                                      *)
(***************************************************************************)
NoAction == <<>>

YesNo(yes, no) ==
    <<[type |-> "YES_NO", yesValue |-> yes, noValue |-> no, deckId |-> 0]>>

OpenSwipe(deck_id) ==
    <<[type |-> "OPEN_SWIPE", yesValue |-> "", noValue |-> "", deckId |-> deck_id]>>

\* the response: text stands for the sentence named by the intent (or the
\* discovery question itself), jobs is always the empty list
make_response(text, mode, actions, links, intent) ==
    [ assistantText |-> text, mode |-> mode, actions |-> actions,
      jobs |-> <<>>, links |-> links, intent |-> intent ]

NoResponse == make_response("", "none", NoAction, <<>>, "none")

\* hashlib.sha1(raw).hexdigest(): the digest of a text, one per text
sha1(raw) == <<"sha1">> \o raw

\* the four fields joined with "|" in one text, then hashed; a field is the
\* sequence of its pieces of text
_job_id(job) ==
    sha1(job.title \o <<"|">> \o job.company \o <<"|">> \o job.location
             \o <<"|">> \o job.redirect_url)

_role_logic(state) ==
    Lower(IF state.role_canon # <<>> THEN state.role_canon ELSE state.role_raw)

_role_display(state) ==
    IF state.role_display # <<>> THEN state.role_display ELSE state.role_keywords

_strip_role_fields_in_state(state) ==
    [state EXCEPT !.role_raw = strip_time_modifiers(@),
                  !.resolved_role = strip_time_modifiers(@),
                  !.role_canon = strip_time_modifiers(@)]

\* a restart that forgets to clear the income type
_reset_search_state_keeps_income(state, keep_location) ==
    [state EXCEPT !.phase = "discovery",
                  !.jobs_shown = FALSE,
                  !.asked_income_type = FALSE,
                  !.current_deck = <<>>,
                  !.cached_jobs = <<>>,
                  !.resolved_role = <<>>,
                  !.role_raw = <<>>,
                  !.role_keywords = <<>>,
                  !.role_display = <<>>,
                  !.role_canon = <<>>,
                  !.role_query = <<>>,
                  !.location = IF keep_location THEN @ ELSE <<>>]

\* a restart that leaves jobs_shown as it was
_reset_search_state_keeps_shown(state, keep_location) ==
    [state EXCEPT !.phase = "discovery",
                  !.asked_income_type = FALSE,
                  !.income_type = None,
                  !.current_deck = <<>>,
                  !.cached_jobs = <<>>,
                  !.resolved_role = <<>>,
                  !.role_raw = <<>>,
                  !.role_keywords = <<>>,
                  !.role_display = <<>>,
                  !.role_canon = <<>>,
                  !.role_query = <<>>,
                  !.location = IF keep_location THEN @ ELSE <<>>]

_reset_search_state(state, keep_location) ==
    [state EXCEPT !.phase = "discovery",
                  !.jobs_shown = FALSE,
                  !.asked_income_type = FALSE,
                  !.income_type = None,
                  !.current_deck = <<>>,
                  !.cached_jobs = <<>>,
                  !.resolved_role = <<>>,
                  !.role_raw = <<>>,
                  !.role_keywords = <<>>,
                  !.role_display = <<>>,
                  !.role_canon = <<>>,
                  !.role_query = <<>>,
                  !.location = IF keep_location THEN @ ELSE <<>>]

_is_greeting(low) == low \in {<<"hi">>, <<"hello">>, <<"hey">>, <<"hiya">>}

\* ACK_ONLY_RE
_is_ack(low) ==
    low \in {<<"thanks">>, <<"thank", "you">>, <<"ok">>, <<"okay">>,
             <<"cool">>, <<"great">>}

\* RESET_RE
IsReset(low) ==
    \/ HasTok(low, "reset") \/ HasPair(low, "start", "over")
    \/ HasPair(low, "new", "search") \/ HasPair(low, "clear", "everything")

\* NEW_SEARCH_RE or PIVOT_RE
_is_new_search_intent(low) ==
    \/ \E w \in {"find", "search"} : HasTok(low, w)
    \/ HasPair(low, "look", "for") \/ HasPair(low, "what", "about")
    \/ \E w \in {"actually", "instead", "change", "different", "switch"} :
           HasTok(low, w)
    \/ HasPair(low, "new", "role") \/ HasPair(low, "new", "job")

\* REFLECTIVE_RE
_is_reflective(low) ==
    \/ \E w \in {"confused", "lost", "unsure", "stuck", "future", "career",
                 "life", "anxious", "stressed"} : HasTok(low, w)
    \/ HasPair(low, "not", "sure") \/ HasPair(low, "don't", "know")

ClarityPhases ==
    {"clarity_offer", "clarity_level", "clarity_interest",
     "clarity_constraints", "clarity_pick_role"}

\* any(k in text for k in ks)
AnyIn(text, ks) == \E k \in ks : Contains(text, k)

_role_suggestions_from_clarity(level, interest) ==
    LET techy == AnyIn(interest, {"tech", "software", "coding", "data", "ai", "computer"})
        creative == AnyIn(interest, {"design", "ui", "ux", "creative", "graphics"})
        people == AnyIn(interest, {"people", "help", "support", "care", "customer"})
    IN  IF level \in {"student", "entry"}
        THEN IF techy
             THEN << <<"Junior", "Software", "Developer">>,
                     <<"IT", "Support", "Technician">>,
                     <<"Data", "Analyst", "(Junior)">> >>
             ELSE IF creative
             THEN << <<"Junior", "UI", "Designer">>,
                     <<"Junior", "UX", "Research", "Assistant">>,
                     <<"Marketing", "Assistant">> >>
             ELSE IF people
             THEN << <<"Customer", "Support", "Advisor">>,
                     <<"Recruitment", "Resourcer">>,
                     <<"Sales", "Assistant">> >>
             ELSE << <<"Customer", "Support", "Advisor">>,
                     <<"Administrative", "Assistant">>,
                     <<"Retail", "Assistant">> >>
        ELSE IF techy
             THEN << <<"Software", "Engineer">>, <<"Data", "Engineer">>,
                     <<"Product", "Analyst">> >>
             ELSE IF creative
             THEN << <<"UI", "Designer">>, <<"UX", "Designer">>,
                     <<"Content", "Designer">> >>
             ELSE IF people
             THEN << <<"Account", "Manager">>, <<"Team", "Lead", "(Support)">>,
                     <<"Recruiter">> >>
             ELSE << <<"Operations", "Coordinator">>,
                     <<"Project", "Coordinator">>, <<"Account", "Manager">> >>

(***************************************************************************)
(* Environment: user messages, completion results, provider listings       *)
(***************************************************************************)
Messages ==
    { <<"hi">>, <<"start", "over">>, <<"thanks">>,
      <<"waiter", "in", "edinburgh">>, <<"waiter">>, <<"in", "edinburgh">>,
      <<"chef">>, <<"part", "time">>, <<"full", "time">>,
      <<"part", "time", "ideally">>,
      <<"yes">>, <<"no">>,
      <<"actually", "software", "engineer">>,
      <<"find", "part", "time", "chef", "jobs", "in", "london">>,
      <<"find", "jobs">>, <<"confused">> }

\* the messages one extraction is tried on: those of a conversation and a
\* message that is a city name and nothing else
ExtractMessages == Messages \cup { <<"edinburgh">> }

\* the canonical values of the YES_NO action a response offers, by the
\* phase the response leaves: what the client echoes back when the user
\* presses a button
EchoValues(phase) ==
    IF phase = "clarity_offer" THEN { <<"clarity_yes">>, <<"clarity_no">> }
    ELSE IF phase = "reflective_with_context"
    THEN { <<"continue_search">>, <<"clarity_yes">> }
    ELSE IF phase = "post_swipe" THEN { <<"talk_yes">>, <<"talk_no">> }
    ELSE {}

AllEchoValues ==
    { <<"clarity_yes">>, <<"clarity_no">>, <<"continue_search">>,
      <<"talk_yes">>, <<"talk_no">> }

\* the replies tried while the clarity pass asks for a level or a pick
ClarityPicks ==
    { <<"start", "over">>, <<"1">>, <<"3">>, <<"waiter", "in", "edinburgh">> }

\* the answers tried for the two free-text clarity questions
ClarityAnswers == { <<"start", "over">>, <<"a">> }

\* what extract_dynamic_keywords hands back: {} on any failure
AIEmpty == [role |-> <<>>, location |-> <<>>, income_type |-> <<>>]

\* the value the parsed JSON holds under one key: no such key, null, a
\* number, or a string (s: its words, <<>> for a blank string)
JAbsent == [t |-> "absent", s |-> <<>>]

JNull == [t |-> "null", s |-> <<>>]

JNumber == [t |-> "number", s |-> <<>>]

JString(s) == [t |-> "string", s |-> s]

\* what json.loads makes of the content of the completion: "invalid" when
\* it raises (no content, prose, truncated JSON), else the type of the
\* value and, for an object, its keys
JObject(role, location, income_type) ==
    [type |-> "object", role |-> role, location |-> location,
     income_type |-> income_type]

JOther(type) ==
    [type |-> type, role |-> JAbsent, location |-> JAbsent,
     income_type |-> JAbsent]

\* one outcome of client.chat.completions.create: the exception it raises,
\* or the content of the message it returns
CompletionRaises(exc) == [exc |-> exc, content |-> JOther("invalid")]

CompletionReturns(content) == [exc |-> "", content |-> content]

CompletionOutcomes ==
    { CompletionRaises("APIConnectionError"),
      CompletionRaises("APITimeoutError"),
      CompletionReturns(JOther("invalid")),
      CompletionReturns(JOther("array")),
      CompletionReturns(JOther("null")),
      CompletionReturns(JObject(JAbsent, JAbsent, JAbsent)),
      CompletionReturns(JObject(JNull, JNull, JString(<<"seasonal">>))),
      CompletionReturns(JObject(JNumber, JString(<<>>), JNull)),
      CompletionReturns(JObject(JString(<<"chef">>), JString(<<"london">>),
                                JString(<<"part", "time">>))) }

\* extract_dynamic_keywords: the parsed content, {} when the call or
\* json.loads raised
extract_dynamic_keywords(outcome) ==
    IF outcome.exc # "" \/ outcome.content.type = "invalid"
    THEN JObject(JAbsent, JAbsent, JAbsent)
    ELSE outcome.content

\* the try block of extract_signals with no handler: .get on a value that
\* is not a dictionary raises and the exception leaves extract_signals
ai_keywords_unguarded(ai_keywords) ==
    IF ai_keywords.type # "object"
    THEN [raised |-> "AttributeError", role |-> JNull, location |-> JNull,
          income_type |-> JNull]
    ELSE [raised |-> "", role |-> ai_keywords.role,
          location |-> ai_keywords.location,
          income_type |-> ai_keywords.income_type]

\* the try block of extract_signals: ai_role, ai_location and ai_income,
\* all three None when .get raised
ai_keywords_get(ai_keywords) ==
    IF ai_keywords.type # "object"
    THEN [raised |-> "", role |-> JNull, location |-> JNull,
          income_type |-> JNull]
    ELSE [raised |-> "", role |-> ai_keywords.role,
          location |-> ai_keywords.location,
          income_type |-> ai_keywords.income_type]

\* what the try block leaves, over the outcomes of the completion call
CompletionResults ==
    { ai_keywords_get(extract_dynamic_keywords(c)) : c \in CompletionOutcomes }

\* str(x).strip() with no test of the type: a number becomes its digits
StrippedStr_of_any_type(x) ==
    IF x.t = "string" THEN x.s ELSE IF x.t = "number" THEN <<"1">> ELSE <<>>

\* isinstance(x, str) and x.strip(): the words of x, or nothing
StrippedStr(x) == IF x.t = "string" THEN x.s ELSE <<>>

\* what sections 4-6 of extract_signals use of the completion
AIFields(got) ==
    [role |-> StrippedStr(got.role), location |-> StrippedStr(got.location),
     income_type |-> StrippedStr(got.income_type)]

\* the values extraction has from the completion call: none of the three
\* (the call failed, or gave nothing usable), all three, or an income type
\* outside the vocabulary
AIResults == { AIEmpty } \cup { AIFields(got) : got \in CompletionResults }

JobA == [title |-> <<"waiter">>, company |-> <<"Acme">>,
         location |-> <<"Edinburgh">>, redirect_url |-> <<"u1">>]
JobA2 == [JobA EXCEPT !.redirect_url = <<"u2">>]
JobB == [title |-> <<"chef">>, company |-> <<>>,
         location |-> <<"London">>, redirect_url |-> <<>>]

\* the listings a provider response can carry, as fetch_jobs normalizes them
FetchResults == { <<>>, <<JobA, JobB, JobA2>> }

\* one answer of the provider to one HTTP attempt: a status with a body, or
\* the exception the HTTP client raises instead
HttpOk(results) == [status |-> 200, exc |-> "", results |-> results]

HttpStatus(code) == [status |-> code, exc |-> "", results |-> <<>>]

HttpRaises(exc) == [status |-> 0, exc |-> exc, results |-> <<>>]

\* what the provider does over the attempts of one fetch; the last answer
\* repeats for the attempts that follow
ProviderOutcomes ==
    { <<HttpOk(l)>> : l \in FetchResults } \cup
    { <<HttpStatus(429), HttpOk(<<JobA, JobB, JobA2>>)>>,
      <<HttpStatus(429)>>,
      <<HttpStatus(500)>>,
      <<HttpRaises("ConnectError")>>,
      <<HttpRaises("ReadTimeout")>> }

SwipeLists == { <<_job_id(JobB)>>, <<_job_id(JobA2), _job_id(JobB)>> }

PassLists == { <<>> }


\* Python's `a or b` on strings
PyOr(a, b) == IF a # <<>> THEN a ELSE b

\* the completion's values taken before the pattern's
Candidates_ai_first(regex, ai, fallback, loc_fallback) ==
    [ role |-> IF ai.role # <<>> THEN ai.role
               ELSE IF regex[1] # <<>> THEN regex[1]
               ELSE IF Len(fallback) > 6 THEN <<>> ELSE fallback,
      location |-> IF ai.location # <<>> THEN ai.location
                   ELSE IF regex[2] # <<>> THEN regex[2]
                   ELSE loc_fallback ]

\* extract_signals, sections 5 and 6: the role and location candidates
Candidates(regex, ai, fallback, loc_fallback) ==
    [ role |-> IF regex[1] # <<>> THEN regex[1]
               ELSE IF ai.role # <<>> THEN ai.role
               ELSE IF Len(fallback) > 6 THEN <<>> ELSE fallback,
      location |-> IF regex[2] # <<>> THEN regex[2]
                   ELSE IF ai.location # <<>> THEN ai.location
                   ELSE loc_fallback ]

\* the completion's income type adopted as it comes
AIIncome_unchecked(ai_income, normalized) ==
    IF ai_income = <<>> THEN None
    ELSE IF normalized # None THEN normalized
    ELSE ai_income[1]

\* extract_signals, section 4: the income type the completion result gives
AIIncome(ai_income, normalized) ==
    IF ai_income = <<>> THEN None
    ELSE IF normalized # None THEN normalized
    ELSE IF Len(ai_income) = 1 /\ ai_income[1] \in STANDARD_INCOME_TYPES
    THEN ai_income[1]
    ELSE None

\* extract_signals, sections 0-8, from the candidates on
SignalRecord(raw, primary, ai, cand, role_canon, resolved) ==
    [ small_talk |->
          \/ AnyIn(raw, {"thanks", "ok", "cool", "nice", "helpful", "great"})
          \/ ContainsPhrase(raw, "thank", "you"),
      explicit_income |-> normalize_income_type(raw),
      ai_income |-> AIIncome(ai.income_type,
                             normalize_income_type(ai.income_type)),
      role_canon |-> role_canon,
      role_display |-> map_role_synonym(role_canon),
      resolved |-> resolved,
      role_query |-> build_search_keywords(resolved),
      loc_candidate |-> cand.location,
      salary |-> SalaryMatch(raw),
      note |-> IF primary # raw THEN Drop(raw, Len(primary) + 1) ELSE <<>> ]

ResolvedSignals(raw, primary, ai, cand, role_canon) ==
    SignalRecord(raw, primary, ai, cand, role_canon,
                 PyOr(resolve_role_from_dataset(role_canon), role_canon))

CanonSignals(raw, primary, ai, cand) ==
    ResolvedSignals(raw, primary, ai, cand, canonicalize_role(cand.role))

RoleSignals(raw, ai, primary) ==
    CanonSignals(raw, primary, ai,
                 Candidates(_extract_role_loc_regex(primary), ai,
                            _strip_fillers(primary), LocFallback(primary)))

\* The candidates one message and one completion result yield, before any
\* of them is written to the state (extract_signals, sections 0-8).
Signals(raw, ai) ==
    RoleSignals(raw, ai, _first_clause(raw))

\* Signals, computed once per message and completion result
SignalsOf ==
    [x \in (ExtractMessages \cup ClarityAnswers \cup ClarityPicks
              \cup AllEchoValues) \X AIResults |->
        Signals(x[1], x[2])]

(***************************************************************************)
(* core/chat_orchestrator.py: chat_with_user up to the completion call     *)
(***************************************************************************)
\* low.startswith(c) for c in a, b, c, d: the words of the vocabulary that
\* start with that letter
InitialWords(c) ==
    CASE c = "a" -> {"a", "actually", "account", "administrative", "advisor",
                     "analyst", "assistant"}
      [] c = "b" -> {"barista"}
      [] c = "c" -> {"chef", "confused", "clarity_yes", "clarity_no",
                     "continue_search", "clarity", "continue", "customer",
                     "coordinator"}
      [] c = "d" -> {"data", "design", "developer"}

StartsWithChar(low, c) == low # <<>> /\ low[1] \in InitialWords(c)

ClarityLevelOf(low) ==
    IF Contains(low, "1") \/ Contains(low, "student") THEN "student"
    ELSE IF Contains(low, "2") \/ Contains(low, "entry") THEN "entry"
    ELSE IF Contains(low, "3") \/ Contains(low, "1-3") THEN "1-3"
    ELSE IF Contains(low, "4") \/ Contains(low, "3-7") THEN "3-7"
    ELSE IF Contains(low, "5") \/ Contains(low, "7+") THEN "7+"
    ELSE None

\* messages of the vocabulary are shorter than the 40 characters kept
ClarityInterestOf(low) ==
    IF StartsWithChar(low, "a") \/ AnyIn(low, {"tech", "coding", "software", "data", "ai"})
    THEN <<"tech">>
    ELSE IF StartsWithChar(low, "b") \/ AnyIn(low, {"design", "ux", "ui", "creative"})
    THEN <<"design">>
    ELSE IF StartsWithChar(low, "c") \/ AnyIn(low, {"people", "support", "customer"})
    THEN <<"people">>
    ELSE IF StartsWithChar(low, "d") \/ HasPair(low, "not", "sure")
            \/ HasPair(low, "dont", "know")
    THEN <<"unsure">>
    ELSE low

YesWords == {<<"yes">>, <<"y">>, <<"yeah">>, <<"yep">>}
NoWords == {<<"no">>, <<"n">>, <<"nah">>, <<"nope">>}

Return(st, resp) == [kind |-> "return", st |-> st, resp |-> resp]

\* extract_signals up to `await extract_dynamic_keywords`: the small-talk
\* marker and the explicit income type are written before the suspension
EarlyWrites(state, raw, sig) ==
    [state EXCEPT !.last_small_talk = IF sig.small_talk THEN raw ELSE @,
                  !.income_type = IF sig.explicit_income # None
                                  THEN sig.explicit_income ELSE @]

ExtractBeforeAwait(state, raw) ==
    EarlyWrites(state, raw, SignalsOf[<<raw, AIEmpty>>])

\* sections 5 and 6 up to the suspension: pivot reset, snapshot, and the
\* part of extract_signals that precedes the completion call
Suspend(s1, low) ==
    [ kind |-> "await_ai",
      st |-> ExtractBeforeAwait(s1, low),
      resp |-> NoResponse,
      prev_role |-> _role_logic(s1),
      prev_loc |-> Lower(s1.location),
      prev_income |-> s1.income_type ]

PivotAndSuspend(state, low) ==
    Suspend(IF _is_new_search_intent(low)
            THEN _reset_search_state(state, TRUE)
            ELSE state, low)

\* a reflective offer that, with a role and a location known, lets the
\* message through to extraction
ReflectiveOrOn_extracts_with_context(state, low) ==
    IF /\ _is_reflective(low) /\ state.phase \notin ClarityPhases
       /\ ~(_role_logic(state) # <<>> /\ state.location # <<>>)
    THEN Return([state EXCEPT !.phase = "clarity_offer"],
                make_response("clarity_offer", "chat",
                              YesNo("clarity_yes", "clarity_no"),
                              <<>>, "clarity_offer"))
    ELSE IF state.phase = "reflective_with_context" /\ low = <<"continue_search">>
    THEN Return([state EXCEPT !.phase = "discovery"],
                make_response("continue_search", "chat", NoAction, <<>>,
                              "continue_search"))
    ELSE PivotAndSuspend(state, low)

\* the reflective offer and what follows it (after the clarity phases)
ReflectiveOrOn(state, low) ==
    IF _is_reflective(low) /\ state.phase \notin ClarityPhases
    THEN IF _role_logic(state) # <<>> /\ state.location # <<>>
         THEN Return([state EXCEPT !.phase = "reflective_with_context"],
                     make_response("reflective_with_context", "chat",
                                   YesNo("continue_search", "clarity_yes"),
                                   <<>>, "reflective_with_context"))
         ELSE Return([state EXCEPT !.phase = "clarity_offer"],
                     make_response("clarity_offer", "chat",
                                   YesNo("clarity_yes", "clarity_no"),
                                   <<>>, "clarity_offer"))
    ELSE IF state.phase = "reflective_with_context" /\ low = <<"continue_search">>
    THEN Return([state EXCEPT !.phase = "discovery"],
                make_response("continue_search", "chat", NoAction, <<>>,
                              "continue_search"))
    ELSE PivotAndSuspend(state, low)

\* an orchestrator without the clarity pass: a reply to a clarity question
\* is handled like any other message
ClarityPass_handles_no_phase(state, low) == ReflectiveOrOn(state, low)

ClarityPass(state, low) ==
    IF state.phase = "clarity_offer"
    THEN IF low \in YesWords \cup {<<"clarity_yes">>}
         THEN Return([state EXCEPT !.phase = "clarity_level"],
                     make_response("clarity_level", "chat", NoAction, <<>>,
                                   "clarity_level"))
         ELSE IF low \in NoWords \cup {<<"clarity_no">>}
         THEN Return([state EXCEPT !.phase = "discovery"],
                     make_response("clarity_declined", "chat", NoAction, <<>>,
                                   "clarity_declined"))
         ELSE Return(state,
                     make_response("clarity_offer_repeat", "chat",
                                   YesNo("clarity_yes", "clarity_no"), <<>>,
                                   "clarity_offer_repeat"))
    ELSE IF state.phase = "clarity_level"
    THEN IF ClarityLevelOf(low) = None
         THEN Return(state,
                     make_response("clarity_level_reprompt", "chat", NoAction,
                                   <<>>, "clarity_level_reprompt"))
         ELSE Return([state EXCEPT !.clarity_level = ClarityLevelOf(low),
                                   !.phase = "clarity_interest"],
                     make_response("clarity_interest", "chat", NoAction, <<>>,
                                   "clarity_interest"))
    ELSE IF state.phase = "clarity_interest"
    THEN Return([state EXCEPT !.clarity_interest = ClarityInterestOf(low),
                              !.phase = "clarity_constraints"],
                make_response("clarity_constraints", "chat", NoAction, <<>>,
                              "clarity_constraints"))
    ELSE IF state.phase = "clarity_constraints"
    THEN LET sugg == _role_suggestions_from_clarity(state.clarity_level,
                                                    state.clarity_interest)
         IN  Return([state EXCEPT
                         !.clarity_constraints =
                             IF low # <<"none">> THEN low ELSE <<>>,
                         !.clarity_suggestions = sugg,
                         !.phase = "clarity_pick_role"],
                    make_response("clarity_suggest_roles", "chat", NoAction,
                                  <<>>, "clarity_suggest_roles"))
    ELSE IF state.phase = "clarity_pick_role"
    THEN LET sugg == IF state.clarity_suggestions # <<>>
                     THEN state.clarity_suggestions
                     ELSE << <<>>, <<>>, <<>> >>
             idx == CASE low = <<"1">> -> 1 [] low = <<"2">> -> 2
                      [] low = <<"3">> -> 3 [] OTHER -> 0
             chosen == IF idx = 0 THEN <<>> ELSE sugg[idx]
             canon == strip_time_modifiers(Lower(chosen))
         IN  IF chosen # <<>>
             THEN Return([state EXCEPT !.role_canon = canon,
                                       !.role_display = chosen,
                                       !.role_raw = canon,
                                       !.phase = "discovery"],
                         make_response("clarity_role_chosen", "chat", NoAction,
                                       <<>>, "clarity_role_chosen"))
             ELSE ReflectiveOrOn([state EXCEPT !.phase = "discovery"], low)
    ELSE ReflectiveOrOn(state, low)

\* sections 1-6 of chat_with_user, to the first return or to the suspension
\* a reset that only restarts the search: the location survives
clear_user_state_soft(state) == _reset_search_state(state, TRUE)

\* memory/store.py clear_user_state, then get_user_state: the stored state
\* is replaced by a fresh default_state, whatever it held
clear_user_state(state) == default_state

\* inside extract_signals.  kind "reset" asks the caller to replace the
\* stored state object by default_state (clear_user_state).
BeforeAwait(state, user_message) ==
    LET low == user_message
    IN  IF _is_greeting(low)
        THEN Return(state, make_response("welcome", "chat", NoAction, <<>>, "greeting"))
        ELSE IF IsReset(low)
        THEN [kind |-> "reset", st |-> clear_user_state(state),
              resp |-> make_response("starting_fresh", "chat", NoAction, <<>>, "reset")]
        ELSE IF _is_ack(low)
        THEN Return(state, make_response("welcome_back", "chat", NoAction, <<>>, "ack"))
        ELSE ClarityPass(state, low)

(***************************************************************************)
(* jobs/job_cards.py                                                       *)
(***************************************************************************)
\* words of the vocabulary shorter than three characters
ShortWords == {"1", "a", "hi", "hr", "in", "it", "no", "of", "ui", "ux", "st"}

\* _tokens: the words of at least three characters, as a set
_tokens(text) ==
    LET c == _clean_text(text)
    IN  {c[i] : i \in {j \in 1..Len(c) : c[j] \notin ShortWords}}

PPC_FAMILY ==
    {"ppc", "paid", "search", "adwords", "google", "ads", "sem",
     "performance", "acquisition"}

\* ROLE_KEYWORD_EXPANSIONS: every key expands to the same family
_expanded_role_tokens(role_canon) ==
    _tokens(role_canon) \cup
        (IF \/ AnyIn(role_canon, {"ppc", "adwords"})
            \/ ContainsPhrase(role_canon, "google", "ads")
            \/ ContainsPhrase(role_canon, "paid", "search")
         THEN PPC_FAMILY ELSE {})

StrictMarkerIn(low) ==
    \/ AnyIn(low, {"ppc", "adwords", "sem"})
    \/ ContainsPhrase(low, "google", "ads")
    \/ ContainsPhrase(low, "paid", "search")

_strict_match_required(role_canon) == StrictMarkerIn(role_canon)

_strict_match_hit(text) == StrictMarkerIn(text)

Clamp(x) == IF x < 0 THEN 0 ELSE IF x > 100 THEN 100 ELSE x

\* job.get("description") or job.get("snippet") or "": the listings
\* fetch_jobs normalizes carry neither key
Snippet(job) ==
    IF "description" \in DOMAIN job /\ job.description # <<>> THEN job.description
    ELSE IF "snippet" \in DOMAIN job THEN job.snippet
    ELSE <<>>

\* f"{title} {snippet}"
TitleAndSnippet(job) == job.title \o Snippet(job)

\* len(role_toks & text_toks)
Overlap(job, role_canon) ==
    Cardinality(_expanded_role_tokens(role_canon) \cap _tokens(TitleAndSnippet(job)))

\* the suggestion with the thresholds excluded
Action_above(score) ==
    IF score > 70 THEN "Apply" ELSE IF score > 55 THEN "Consider" ELSE "Skip"

\* score_job, step 5
Action(score) ==
    IF score >= 70 THEN "Apply" ELSE IF score >= 55 THEN "Consider" ELSE "Skip"

\* a bonus for every shared token, and no clamp
score_job_per_token(job, role_canon, location) ==
    LET score == 50 + 25 * Overlap(job, role_canon)
    IN  [ score |-> score, action |-> Action(score) ]

\* reasons and missing are display strings and are left out of the card
score_job(job, role_canon, location) ==
    LET overlap == Overlap(job, role_canon)
        relevance == IF overlap >= 3 THEN 25
                     ELSE IF overlap = 2 THEN 18
                     ELSE IF overlap = 1 THEN 8
                     ELSE 0 - 12
        strict == IF /\ _strict_match_required(role_canon)
                     /\ ~_strict_match_hit(TitleAndSnippet(job))
                  THEN 0 - 25 ELSE 0
        loc == IF location # <<>> /\ HasRun(Lower(job.location), Lower(location))
               THEN 15 ELSE 0
        complete == IF job.company # <<>> THEN 2 ELSE 0
        score == Clamp(50 + relevance + strict + loc + complete)
    IN  [ score |-> score, action |-> Action(score) ]

\* a sort that puts a card before the cards of equal score
RECURSIVE InsertCard_before_ties(_, _)
InsertCard_before_ties(sorted, c) ==
    IF sorted = <<>> THEN <<c>>
    ELSE IF Head(sorted).score > c.score
         THEN <<Head(sorted)>> \o InsertCard_before_ties(Tail(sorted), c)
         ELSE <<c>> \o sorted

\* list.sort(key=score, reverse=True): stable, descending
RECURSIVE InsertCard(_, _)
InsertCard(sorted, c) ==
    IF sorted = <<>> THEN <<c>>
    ELSE IF Head(sorted).score >= c.score
         THEN <<Head(sorted)>> \o InsertCard(Tail(sorted), c)
         ELSE <<c>> \o sorted

RECURSIVE SortCards(_)
SortCards(cards) ==
    IF cards = <<>> THEN <<>>
    ELSE InsertCard(SortCards(SubSeq(cards, 1, Len(cards) - 1)), cards[Len(cards)])

to_job_cards(jobs, role_canon, location) ==
    SortCards([i \in 1..Len(jobs) |->
        LET meta == score_job(jobs[i], role_canon, location)
        IN  [ id |-> jobs[i].id, title |-> jobs[i].title,
              company |-> jobs[i].company, location |-> jobs[i].location,
              redirect_url |-> jobs[i].redirect_url,
              score |-> meta.score, action |-> meta.action ]])

(***************************************************************************)
(* ai/extraction.py: extract_signals after the completion call             *)
(***************************************************************************)
LateWrites(state, sig) ==
    advance_phase(
        [state EXCEPT
            !.income_type = IF sig.ai_income # None /\ @ = None
                            THEN sig.ai_income ELSE @,
            !.role_canon = IF sig.role_canon # <<>> THEN sig.role_canon ELSE @,
            !.role_display = IF sig.role_canon # <<>> THEN sig.role_display ELSE @,
            !.resolved_role = IF sig.role_canon # <<>> THEN sig.resolved ELSE @,
            !.role_query = IF sig.role_canon # <<>> THEN sig.role_query ELSE @,
            !.role_keywords = IF sig.role_canon # <<>> THEN sig.role_display ELSE @,
            !.role_raw = IF sig.role_canon # <<>> THEN sig.role_canon ELSE @,
            !.location = IF sig.loc_candidate # <<>>
                         THEN _best_city_match(sig.loc_candidate) ELSE @,
            !.salary = IF sig.salary # <<>> THEN sig.salary ELSE @,
            !.note = IF sig.note # <<>> THEN sig.note ELSE @])

ExtractAfterAwait(state, raw, ai) == LateWrites(state, SignalsOf[<<raw, ai>>])

(***************************************************************************)
(* core/chat_orchestrator.py: chat_with_user after the completion call     *)
(***************************************************************************)
DECK_SIZE == 8

\* a role, location or income type that was known and now differs
ChangedSearch(state, prev_role, prev_loc, prev_income) ==
    LET new_role == _role_logic(state)
        new_loc == Lower(state.location)
        new_income == state.income_type
    IN  \/ prev_role # <<>> /\ new_role # <<>> /\ prev_role # new_role
        \/ prev_loc # <<>> /\ new_loc # <<>> /\ prev_loc # new_loc
        \/ prev_income # None /\ new_income # None /\ prev_income # new_income

\* a restart that forgets to put the location back
RestartSearch_drops_location(state) ==
    [_reset_search_state(state, FALSE) EXCEPT
         !.role_canon = state.role_canon,
         !.role_display = _role_display(state),
         !.role_keywords = _role_display(state),
         !.income_type = state.income_type]

\* the restart that keeps location, role_canon, role_display and income
RestartSearch(state) ==
    LET keep_role_display == _role_display(state)
    IN  [_reset_search_state(state, FALSE) EXCEPT
             !.location = state.location,
             !.role_canon = state.role_canon,
             !.role_display = keep_role_display,
             !.role_keywords = keep_role_display,
             !.income_type = state.income_type]

\* section 7
PostSwipe(state, low) ==
    LET deck == IF state.current_deck = <<>> THEN [liked |-> <<>>]
                ELSE state.current_deck[1]
        liked_ids == {deck.liked[i] : i \in 1..Len(deck.liked)}
        liked_cards == SelectSeq(state.cached_jobs, LAMBDA c : c.id \in liked_ids)
        with_url == SelectSeq(liked_cards, LAMBDA c : c.redirect_url # <<>>)
        links == [i \in 1..Len(with_url) |->
                     [label |-> <<with_url[i].title, with_url[i].company>>,
                      url |-> with_url[i].redirect_url]]
    IN  IF low \in {<<"yes">>, <<"yeah">>, <<"yep">>, <<"talk_yes">>}
        THEN Return([state EXCEPT !.phase = "discuss_likes"],
                    make_response("post_swipe_discuss", "chat", NoAction, <<>>,
                                  "post_swipe_discuss"))
        ELSE IF low \in NoWords \cup {<<"talk_no">>}
        THEN Return([state EXCEPT !.phase = "ready"],
                    make_response("post_swipe_links", "chat", NoAction, links,
                                  "post_swipe_links"))
        ELSE Return(state,
                    make_response("post_swipe_prompt", "post_swipe",
                                  YesNo("talk_yes", "talk_no"), <<>>,
                                  "post_swipe_prompt"))

\* section 10 up to `await fetch_jobs`, or section 11 when nothing is to
\* be fetched (the coached reply changes no state)
ResolveForSearch(role_input) ==
    strip_time_modifiers(PyOr(resolve_role_from_dataset(role_input), role_input))

SuspendAtFetch(state, resolved) ==
    [ kind |-> "await_fetch",
      st |-> [state EXCEPT !.resolved_role = resolved,
                           !.role_query = build_search_keywords(resolved)],
      resp |-> NoResponse,
      resolved |-> resolved ]

FetchOrFallback(state) ==
    IF _role_logic(state) # <<>> /\ state.location # <<>> /\ ~state.jobs_shown
    THEN SuspendAtFetch(state,
             ResolveForSearch(strip_time_modifiers(_role_logic(state))))
    ELSE Return(state, make_response("coached_reply", "chat", NoAction, <<>>, "fallback"))

\* section 9 without the income question: the search goes ahead with
\* whatever income type the state holds
IncomeClarification_never_asks(state, low) ==
    FetchOrFallback(
        IF state.asked_income_type /\ (Contains(low, "part") \/ Contains(low, "full"))
        THEN [state EXCEPT !.income_type = IF Contains(low, "part")
                                           THEN "part-time" ELSE "full-time",
                           !.jobs_shown = FALSE,
                           !.asked_income_type = FALSE]
        ELSE state)

\* section 9
IncomeClarification(state, low) ==
    IF /\ state.income_type = None /\ ~state.asked_income_type
       /\ _role_logic(state) # <<>> /\ state.location # <<>>
    THEN Return([state EXCEPT !.asked_income_type = TRUE],
                make_response("ask_income_type", "chat", NoAction, <<>>,
                              "ask_income_type"))
    ELSE IF state.asked_income_type /\ ~Contains(low, "part") /\ ~Contains(low, "full")
    THEN Return(state,
                make_response("reprompt_income", "chat", NoAction, <<>>,
                              "reprompt_income"))
    ELSE FetchOrFallback(
             IF state.asked_income_type
             THEN [state EXCEPT !.income_type = IF Contains(low, "part")
                                                THEN "part-time" ELSE "full-time",
                                !.jobs_shown = FALSE,
                                !.asked_income_type = FALSE]
             ELSE state)

\* section 8
DiscoveryPrompt(state, low) ==
    LET q == next_discovery_question(state)
    IN  IF /\ state.phase = "discovery" /\ q # None
           /\ ~(_role_logic(state) # <<>> /\ state.location # <<>>)
        THEN Return(state, make_response(q, "chat", NoAction, <<>>,
                                         "discovery_question"))
        ELSE IncomeClarification(state, low)

\* chat_with_user from the return of the completion call to the next
\* return or to the suspension at fetch_jobs
RestartIfChanged(state, prev_role, prev_loc, prev_income) ==
    IF ChangedSearch(state, prev_role, prev_loc, prev_income)
    THEN RestartSearch(state)
    ELSE state

Route(state, low) ==
    IF state.phase = "post_swipe" THEN PostSwipe(state, low)
    ELSE DiscoveryPrompt(state, low)

AfterAwait(state, user_message, prev_role, prev_loc, prev_income, ai) ==
    Route(RestartIfChanged(
              _strip_role_fields_in_state(
                  ExtractAfterAwait(state, user_message, ai)),
              prev_role, prev_loc, prev_income),
          user_message)

\* no deduplication: every listing is kept
Dedup_keeps_all(jobs) == jobs

\* {(title, company, location): j for j in jobs}.values(): one listing per
\* key, at the position of the key's first listing, the last listing winning
Dedup(jobs) ==
    LET Key(j) == <<j.title, j.company, j.location>>
        firsts == SelectSeq([i \in 1..Len(jobs) |-> i],
                     LAMBDA i : \A k \in 1..(i - 1) : Key(jobs[k]) # Key(jobs[i]))
        LastOf(i) == CHOOSE k \in 1..Len(jobs) :
                        /\ Key(jobs[k]) = Key(jobs[i])
                        /\ \A m \in (k + 1)..Len(jobs) : Key(jobs[m]) # Key(jobs[i])
    IN  [n \in 1..Len(firsts) |-> jobs[LastOf(firsts[n])]]

\* chat_with_user from the return of fetch_jobs; deck_id is the fresh uuid
AfterFetch(state, resolved, fetched, deck_id) ==
    LET uniq == Dedup(fetched)
        jobs == [i \in 1..Len(uniq) |->
                    [ id |-> _job_id(uniq[i]), title |-> uniq[i].title,
                      company |-> uniq[i].company, location |-> uniq[i].location,
                      redirect_url |-> uniq[i].redirect_url ]]
        role == IF _role_logic(state) # <<>> THEN _role_logic(state) ELSE resolved
        cards == to_job_cards(jobs, role, state.location)
        deck_cards == Take(cards, DECK_SIZE)
        deck == [ deck_id |-> deck_id,
                  job_ids |-> [i \in 1..Len(deck_cards) |-> deck_cards[i].id],
                  liked |-> <<>>, passed |-> <<>>, complete |-> FALSE ]
    IN  IF jobs = <<>>
        THEN Return([state EXCEPT !.jobs_shown = FALSE, !.phase = "no_results"],
                    make_response("no_results_broaden", "no_results", NoAction,
                                  <<>>, "no_results"))
        ELSE Return([state EXCEPT !.cached_jobs = cards,
                                  !.jobs_shown = TRUE,
                                  !.phase = "results_found",
                                  !.current_deck = <<deck>>],
                    make_response("results_found", "results_found",
                                  OpenSwipe(deck_id), <<>>, "results_found"))

(***************************************************************************)
(* jobs/adzuna.py                                                          *)
(***************************************************************************)
MAX_TRIES == 5

\* _get_with_backoff: the body of the first answer below 400, retrying on
\* 429 only; any other status, an exception of the client, or 429 on the
\* last attempt raises
RECURSIVE _get_with_backoff(_, _, _)
_get_with_backoff(responses, attempt, tries) ==
    IF attempt > tries
    THEN [raised |-> "RuntimeError: Adzuna rate-limited (429) after retries",
          data |-> <<>>, attempts |-> tries]
    ELSE IF responses[IF attempt < Len(responses) THEN attempt
                      ELSE Len(responses)].exc # ""
    THEN [raised |-> responses[IF attempt < Len(responses) THEN attempt
                               ELSE Len(responses)].exc,
          data |-> <<>>, attempts |-> attempt]
    ELSE IF responses[IF attempt < Len(responses) THEN attempt
                      ELSE Len(responses)].status < 400
    THEN [raised |-> "",
          data |-> responses[IF attempt < Len(responses) THEN attempt
                             ELSE Len(responses)].results,
          attempts |-> attempt]
    ELSE IF responses[IF attempt < Len(responses) THEN attempt
                      ELSE Len(responses)].status = 429
    THEN _get_with_backoff(responses, attempt + 1, tries)
    ELSE [raised |-> "HTTPStatusError", data |-> <<>>, attempts |-> attempt]

\* a fetch that hands on whatever it got when the request failed
fetch_jobs_keeps_partial(role_keywords, location, got) ==
    IF role_keywords = <<>> \/ location = <<>>
    THEN [jobs |-> <<>>, error |-> ""]
    ELSE [jobs |-> IF got.raised # "" THEN <<JobB>> ELSE got.data,
          error |-> got.raised]

\* fetch_jobs after the request: the normalized listings, or [] when the
\* request raised; error is what the except clause printed
fetch_jobs(role_keywords, location, got) ==
    IF role_keywords = <<>> \/ location = <<>>
    THEN [jobs |-> <<>>, error |-> ""]
    ELSE IF got.raised # ""
    THEN [jobs |-> <<>>, error |-> got.raised]
    ELSE [jobs |-> [i \in 1..Len(got.data) |->
                      [ title |-> got.data[i].title,
                        company |-> got.data[i].company,
                        location |-> got.data[i].location,
                        redirect_url |-> got.data[i].redirect_url ]],
          error |-> ""]

(***************************************************************************)
(* api/chat.py                                                             *)
(***************************************************************************)
\* an optional list argument: None, or a list
PyNone == [none |-> TRUE, items |-> <<>>]

PyList(items) == [none |-> FALSE, items |-> items]

\* `x or []`
OrEmptyList(x) == IF x.none THEN PyList(<<>>) ELSE x

NoExc == [ type |-> "", message |-> "" ]

\* the debug dictionary: the keys the endpoints write
Debug(intent, error_code) == [intent |-> intent, error_code |-> error_code]

_chat_response(assistant_text, mode, actions, jobs, links, debug) ==
    [ assistantText |-> assistant_text, mode |-> mode,
      actions |-> OrEmptyList(actions), jobs |-> OrEmptyList(jobs),
      links |-> OrEmptyList(links), debug |-> debug ]

_friendly_error_message(error_code) ==
    CASE error_code = "TIMEOUT" -> "took_too_long"
      [] error_code = "UPSTREAM" -> "job_source_slow"
      [] error_code = "VALIDATION" -> "did_not_catch_that"
      [] OTHER -> "something_slipped"

\* what the endpoint hands to the framework: the body it returns, or the
\* exception that leaves it
Responds(body) == [raised |-> NoExc, body |-> body]

Propagates(exc) ==
    [raised |-> exc,
     body |-> _chat_response("", "none", PyNone, PyNone, PyNone, Debug("", ""))]

ErrorResponse(error_code) ==
    Responds(_chat_response(_friendly_error_message(error_code), "chat",
                            PyNone, PyNone, PyNone, Debug("", error_code)))

\* the endpoint with no catch-all handler: only TimeoutError and
\* ValueError are turned into responses
chat_without_catch_all(msg, result, exc) ==
    IF msg = <<>>
    THEN Responds(_chat_response("welcome", "chat", PyNone, PyNone, PyNone,
                                 Debug("warm_start", "")))
    ELSE IF exc.type = ""
    THEN Responds(_chat_response(result.assistantText, result.mode,
                                 PyList(result.actions), PyList(result.jobs),
                                 PyList(result.links), Debug(result.intent, "")))
    ELSE IF exc.type = "TimeoutError" THEN ErrorResponse("TIMEOUT")
    ELSE IF exc.type = "ValueError" THEN ErrorResponse("VALIDATION")
    ELSE Propagates(exc)

\* chat, for the message msg and the outcome of chat_with_user: the
\* dictionary result it returned, or the exception exc it raised
chat(msg, result, exc) ==
    IF msg = <<>>
    THEN Responds(_chat_response("welcome", "chat", PyNone, PyNone, PyNone,
                                 Debug("warm_start", "")))
    ELSE IF exc.type = ""
    THEN Responds(_chat_response(result.assistantText, result.mode,
                                 PyList(result.actions), PyList(result.jobs),
                                 PyList(result.links), Debug(result.intent, "")))
    ELSE IF exc.type = "TimeoutError" THEN ErrorResponse("TIMEOUT")
    ELSE IF exc.type = "ValueError" THEN ErrorResponse("VALIDATION")
    ELSE ErrorResponse("INTERNAL")

\* no request answered
NoOut == Propagates(NoExc)

\* asyncio.CancelledError, which `except Exception` does not catch
Cancelled == [type |-> "CancelledError", message |-> ""]

\* the exceptions a component below the endpoint may raise
Exceptions ==
    { [type |-> "TimeoutError", message |-> "timed out"],
      [type |-> "ValueError", message |-> "bad value"],
      [type |-> "TypeError", message |-> "missing argument conversation_id"] }

(***************************************************************************)
(* app.py: the /chat endpoint of the earlier application                   *)
(***************************************************************************)
\* the debug dictionary of ChatResponse: the keys app.py writes; traceback
\* is the exception the formatted traceback names and quotes
AppDebug(reason, error, traceback) ==
    [reason |-> reason, error |-> error, traceback |-> traceback]

ChatResponse(assistantText, mode, jobs, debug) ==
    [assistantText |-> assistantText, mode |-> mode, jobs |-> jobs,
     debug |-> debug]

\* what `await chat_with_user(session_id=..., ...)` can come to: OpenAi's
\* chat_with_user takes user_id, so as the call is written it raises the
\* TypeError; the other outcomes are those of a call that gets through
AppOutcomes ==
    { [exc |-> e, assistantText |-> "", mode |-> ""] :
        e \in Exceptions \cup
              { [type |-> "TypeError",
                 message |-> "unexpected keyword argument session_id"] } }
    \cup
    { [exc |-> NoExc, assistantText |-> "found_jobs", mode |-> "results"],
      [exc |-> NoExc, assistantText |-> "", mode |-> ""] }

\* app.py chat, steps 3-6, for a message and the outcome of chat_with_user
app_chat(msg, outcome) ==
    IF msg = <<>>
    THEN ChatResponse("please_send_a_message", "chat", <<>>,
                      AppDebug("empty user message", "", NoExc))
    ELSE IF outcome.exc # NoExc
    THEN ChatResponse("oops_something_went_wrong", "chat", <<>>,
                      AppDebug("", outcome.exc.message, outcome.exc))
    ELSE ChatResponse(IF outcome.assistantText # "" THEN outcome.assistantText
                      ELSE "sorry_no_response",
                      IF outcome.mode # "" THEN outcome.mode ELSE "chat",
                      <<>>, AppDebug("", "", NoExc))

(***************************************************************************)
(* Bounds and state                                                        *)
(***************************************************************************)
MaxDecks == 2

Tasks == {1, 2}

ObjIds == {0, 1}

VARIABLES
    objs,      \* the state dictionaries, by object identity
    cur,       \* the object the store holds for the conversation
    task,      \* the in-flight chat_with_user calls
    nextDeck,  \* deck ids handed out so far (uuid4 never repeats)
    last,      \* the last completed request: its response, and whether it
               \* called the listing provider
    calc,      \* one application of a function of the program: its name,
               \* its arguments and, once applied, its result
    conc       \* the messages received while requests may overlap, in the
               \* order of arrival, and whether two of them did overlap

vars == <<objs, cur, task, nextDeck, last, conc, calc>>

\* the variables of the conversation
conversation == <<objs, cur, task, nextDeck, last, conc>>

NoCalc == [ op |-> "none" ]

NoConc == [ sent |-> <<>>, overlap |-> FALSE ]

Idle == [ pc |-> "idle", ref |-> 0, msg |-> <<>>, prev_role |-> <<>>,
          prev_loc |-> <<>>, prev_income |-> None, resolved |-> <<>>,
          pre |-> default_state ]

\* the request just answered: its message or, for a swipe submission,
\* its deckId, the state it started from, the response, whether the
\* provider was called and what it returned
NoLast == [ kind |-> "none", msg |-> <<>>, pre |-> default_state,
            resp |-> NoResponse, fetched |-> FALSE, listings |-> <<>>,
            error |-> "", exc |-> NoExc, out |-> NoOut, deckId |-> 0 ]

state == objs[cur]

InFlight == {t \in Tasks : task[t].pc # "idle"}

\* objects no longer reachable from the store or from a running call
Collect(o, c, tk) ==
    [i \in ObjIds |->
        IF i = c \/ \E t \in Tasks : tk[t].pc # "idle" /\ tk[t].ref = i
        THEN o[i] ELSE default_state]

InitConversation ==
    /\ objs = [i \in ObjIds |-> default_state]
    /\ cur = 0
    /\ task = [t \in Tasks |-> Idle]
    /\ nextDeck = 0
    /\ last = NoLast
    /\ conc = NoConc

Init ==
    /\ InitConversation
    /\ calc = NoCalc

Finish(t, m, pre, o, c, resp, fetched, listings, error) ==
    /\ task' = [task EXCEPT ![t] = Idle]
    /\ objs' = Collect(o, c, task')
    /\ cur' = c
    /\ last' = [ kind |-> "chat", msg |-> m, pre |-> pre, resp |-> resp,
                 fetched |-> fetched, listings |-> listings, error |-> error,
                 exc |-> NoExc, out |-> chat(m, resp, NoExc), deckId |-> 0 ]

\* chat_with_user raises exc: the state object keeps what the call has
\* written so far, and the exception reaches the handler of the endpoint
Raised(t, exc) ==
    /\ task' = [task EXCEPT ![t] = Idle]
    /\ objs' = Collect(objs, cur, task')
    /\ last' = [ kind |-> "chat", msg |-> task[t].msg, pre |-> task[t].pre,
                 resp |-> NoResponse, fetched |-> FALSE, listings |-> <<>>,
                 error |-> "", exc |-> exc,
                 out |-> chat(task[t].msg, NoResponse, exc), deckId |-> 0 ]
    /\ UNCHANGED <<cur, nextDeck>>

\* what the user may send next: any message or the value of a button the
\* last response offered, except that the questions of the clarity pass are
\* answered from the smaller sets
MessagesIn(phase) ==
    IF phase \in {"clarity_interest", "clarity_constraints"} THEN ClarityAnswers
    ELSE IF phase \in {"clarity_level", "clarity_pick_role"} THEN ClarityPicks
    ELSE Messages \cup EchoValues(phase)

\* a store that hands every call its own copy of the state
get_user_state_copy(stored, fresh) == fresh

\* the object a call works on: the stored dictionary itself
get_user_state(stored, fresh) == stored

\* chat_with_user from its call to its first suspension or return
Begin(t, m) ==
    /\ task[t].pc = "idle"
    /\ m \in MessagesIn(state.phase)
    /\ UNCHANGED nextDeck
    /\ \E r \in {BeforeAwait(state, m)},
          fresh \in {CHOOSE o \in ObjIds : \A u \in InFlight : task[u].ref # o} :
       \E ref \in {get_user_state(cur, fresh)} :
           CASE r.kind = "return" ->
                  Finish(t, m, state, [objs EXCEPT ![ref] = r.st], cur,
                         r.resp, FALSE, <<>>, "")
             [] r.kind = "reset" ->
                  Finish(t, m, state, [objs EXCEPT ![fresh] = r.st], fresh,
                         r.resp, FALSE, <<>>, "")
             [] r.kind = "await_ai" ->
                  /\ objs' = [objs EXCEPT ![ref] = r.st]
                  /\ task' = [task EXCEPT ![t] =
                                [ pc |-> "await_ai", ref |-> ref, msg |-> m,
                                  prev_role |-> r.prev_role,
                                  prev_loc |-> r.prev_loc,
                                  prev_income |-> r.prev_income,
                                  resolved |-> <<>>, pre |-> state ]]
                  /\ UNCHANGED <<cur, last>>

\* the completion call has returned what got holds and the call runs on to
\* its return or to the suspension at fetch_jobs
AIResume(t, ai) ==
    /\ UNCHANGED nextDeck
    /\ \E tk \in {task[t]} :
       \E r \in {AfterAwait(objs[tk.ref], tk.msg, tk.prev_role, tk.prev_loc,
                            tk.prev_income, ai)} :
           CASE r.kind = "return" ->
                  Finish(t, tk.msg, tk.pre, [objs EXCEPT ![tk.ref] = r.st],
                         cur, r.resp, FALSE, <<>>, "")
             [] r.kind = "await_fetch" ->
                  /\ objs' = [objs EXCEPT ![tk.ref] = r.st]
                  /\ task' = [task EXCEPT ![t].pc = "await_fetch",
                                          ![t].resolved = r.resolved]
                  /\ UNCHANGED <<cur, last>>

\* the completion call has ended and the try block of extract_signals
\* leaves got
AIReturn(t, got) ==
    /\ task[t].pc = "await_ai"
    /\ IF got.raised # ""
       THEN Raised(t, [type |-> got.raised, message |-> "no attribute get"])
       ELSE AIResume(t, AIFields(got))

\* an exception nothing inside chat_with_user handles is raised while the
\* call is suspended
Raise(t, exc) ==
    /\ task[t].pc \in {"await_ai", "await_fetch"}
    /\ Raised(t, exc)

\* fetch_jobs returns, the provider having answered with responses, and
\* the call runs to its return
FetchReturn(t, responses) ==
    /\ task[t].pc = "await_fetch"
    /\ \E tk \in {task[t]} :
       \E f \in {fetch_jobs(objs[tk.ref].role_query, objs[tk.ref].location,
                            _get_with_backoff(responses, 1, MAX_TRIES))} :
           /\ Dedup(f.jobs) # <<>> => nextDeck < MaxDecks
           /\ nextDeck' = IF Dedup(f.jobs) = <<>> THEN nextDeck ELSE nextDeck + 1
           /\ \E r \in {AfterFetch(objs[tk.ref], tk.resolved, f.jobs, nextDeck + 1)} :
                  Finish(t, tk.msg, tk.pre, [objs EXCEPT ![tk.ref] = r.st], cur,
                         r.resp, TRUE, f.jobs, f.error)

\* a submission that takes every deckId for the current deck's
SubmitSwipes_any_deck(deckId, liked, passed) ==
    /\ state.current_deck # <<>>
    /\ objs' = [objs EXCEPT ![cur] =
                  [state EXCEPT !.current_deck =
                                    <<[state.current_deck[1] EXCEPT
                                           !.liked = liked, !.passed = passed,
                                           !.complete = TRUE]>>,
                                !.phase = "post_swipe"]]
    /\ last' = [NoLast EXCEPT !.kind = "swipe", !.pre = state,
                              !.resp = make_response("swipe_summary", "post_swipe",
                                                     YesNo("talk_yes", "talk_no"),
                                                     <<>>, "swipe_submitted"),
                              !.deckId = deckId]
    /\ UNCHANGED <<cur, task, nextDeck>>

\* api/chat.py submit_swipes
SubmitSwipes(deckId, liked, passed) ==
    /\ LET deck == IF state.current_deck = <<>> THEN [deck_id |-> 0]
                   ELSE state.current_deck[1]
           ok == deck.deck_id = deckId
           st == IF ok
                 THEN [state EXCEPT !.current_deck =
                                        <<[deck EXCEPT !.liked = liked,
                                                       !.passed = passed,
                                                       !.complete = TRUE]>>,
                                    !.phase = "post_swipe"]
                 ELSE state
       IN  /\ objs' = [objs EXCEPT ![cur] = st]
           /\ last' = [ kind |-> "swipe", msg |-> <<>>, pre |-> state,
                        resp |-> IF ok
                                 THEN make_response("swipe_summary", "post_swipe",
                                                    YesNo("talk_yes", "talk_no"),
                                                    <<>>, "swipe_submitted")
                                 ELSE make_response("deck_expired", "chat", NoAction,
                                                    <<>>, "DECK_EXPIRED"),
                        fetched |-> FALSE, listings |-> <<>>, error |-> "",
                        exc |-> NoExc, out |-> NoOut, deckId |-> deckId ]
    /\ UNCHANGED <<cur, task, nextDeck>>

\* api/chat.py: the endpoint hands the response to the client
Deliver ==
    /\ last # NoLast
    /\ last' = NoLast
    /\ UNCHANGED <<objs, cur, task, nextDeck>>

\* the request is cancelled while the call is suspended (the client went
\* away): CancelledError is raised at the await, no handler catches it, and
\* the state object keeps what the call has written so far
Cancel(t) ==
    /\ task[t].pc \in {"await_ai", "await_fetch"}
    /\ task' = [task EXCEPT ![t] = Idle]
    /\ objs' = Collect(objs, cur, task')
    /\ last' = [ kind |-> IF task[t].pc = "await_ai" THEN "cancelled_ai"
                          ELSE "cancelled_fetch",
                 msg |-> task[t].msg, pre |-> task[t].pre, resp |-> NoResponse,
                 fetched |-> FALSE, listings |-> <<>>, error |-> "",
                 exc |-> NoExc, out |-> Propagates(Cancelled),
                 deckId |-> 0 ]
    /\ UNCHANGED <<cur, nextDeck>>

\* the first-load ping of the client: an empty message, answered without
\* calling chat_with_user
WarmStart ==
    /\ InFlight = {}
    /\ last' = [NoLast EXCEPT !.kind = "chat", !.pre = state,
                              !.out = chat(<<>>, NoResponse, NoExc)]
    /\ UNCHANGED <<objs, cur, task, nextDeck>>

\* one message at a time: the caller contract of section 5
NextSerial ==
    \/ /\ last = NoLast
       /\ \E m \in Messages \cup ClarityAnswers \cup ClarityPicks
                    \cup AllEchoValues : Begin(1, m)
       /\ UNCHANGED <<conc, calc>>
    \/ (\E got \in CompletionResults : AIReturn(1, got)) /\ UNCHANGED <<conc, calc>>
    \/ (\E f \in ProviderOutcomes : FetchReturn(1, f)) /\ UNCHANGED <<conc, calc>>
    \/ /\ InFlight = {}
       /\ last = NoLast
       /\ \E d \in 1..MaxDecks, l \in SwipeLists, p \in PassLists :
              SubmitSwipes(d, l, p)
       /\ UNCHANGED <<conc, calc>>
    \/ Deliver /\ UNCHANGED <<conc, calc>>

Next == NextSerial

Spec == Init /\ [][Next]_vars

\* one message at a time, any of which may be cancelled while suspended
NextCancel ==
    \/ NextSerial
    \/ Cancel(1) /\ UNCHANGED <<conc, calc>>

SpecCancel == Init /\ [][NextCancel]_vars

\* one message at a time, the empty one included, with any call raising
\* while it is suspended
NextEntry ==
    \/ NextSerial
    \/ (\E exc \in Exceptions : Raise(1, exc)) /\ UNCHANGED <<conc, calc>>
    \/ last = NoLast /\ WarmStart /\ UNCHANGED <<conc, calc>>

SpecEntry == Init /\ [][NextEntry]_vars

\* two messages of one conversation, the second arriving at any time: no
\* lock keeps the second request from running while the first is suspended
NextConc ==
    \/ /\ conc.sent = <<>>
       /\ \E m \in Messages : Begin(1, m) /\ conc' = [conc EXCEPT !.sent = <<m>>]
       /\ UNCHANGED calc
    \/ /\ Len(conc.sent) = 1
       /\ \E m \in Messages :
              /\ Begin(2, m)
              /\ conc' = [ sent |-> Append(conc.sent, m),
                           overlap |-> task[1].pc # "idle" ]
       /\ UNCHANGED calc
    \/ (\E t \in Tasks, got \in CompletionResults : AIReturn(t, got)) /\ UNCHANGED <<conc, calc>>
    \/ (\E t \in Tasks, f \in ProviderOutcomes : FetchReturn(t, f)) /\ UNCHANGED <<conc, calc>>
    \/ Deliver /\ UNCHANGED <<conc, calc>>

SpecConc == Init /\ [][NextConc]_vars

(***************************************************************************)
(* api/chat.py, api/deck.py: swipe submissions with any lists of ids       *)
(***************************************************************************)
\* the messages of a conversation that searches and then answers the
\* question that follows the swipes
SwipeMessages ==
    { <<"find", "part", "time", "chef", "jobs", "in", "london">>,
      <<"no">>, <<"talk_no">> }

\* the ids a client may send: ids of cards of the deck and the id of a
\* listing that is no card of it
RequestIds == { _job_id(JobA2), _job_id(JobB), _job_id(JobA) }

MaxSwipeIds == 2

\* the lists of at most n ids
RECURSIVE IdLists(_)
IdLists(n) ==
    IF n = 0 THEN { <<>> }
    ELSE IdLists(n - 1) \cup
         { Append(l, i) : l \in { k \in IdLists(n - 1) : Len(k) = n - 1 },
                          i \in RequestIds }

NextSwipe ==
    \/ /\ last = NoLast
       /\ \E m \in SwipeMessages : Begin(1, m)
       /\ UNCHANGED <<conc, calc>>
    \/ (\E got \in CompletionResults : AIReturn(1, got)) /\ UNCHANGED <<conc, calc>>
    \/ (\E f \in ProviderOutcomes : FetchReturn(1, f)) /\ UNCHANGED <<conc, calc>>
    \/ /\ InFlight = {}
       /\ last = NoLast
       /\ \E d \in 1..MaxDecks :
          \E l \in IdLists(MaxSwipeIds), p \in IdLists(MaxSwipeIds) :
              SubmitSwipes(d, l, p)
       /\ UNCHANGED <<conc, calc>>
    \/ Deliver /\ UNCHANGED <<conc, calc>>

SpecSwipe == Init /\ [][NextSwipe]_vars

(***************************************************************************)
(* ai/extraction.py: extract_signals as one call                           *)
(***************************************************************************)
\* extract_signals(message, state) when the completion call ends with
\* outcome: the exception that leaves it, if any, and the state it leaves
extract_signals(before, message, outcome) ==
    LET got == ai_keywords_get(extract_dynamic_keywords(outcome))
    IN  IF got.raised # ""
        THEN [raised |-> got.raised, st |-> ExtractBeforeAwait(before, message)]
        ELSE [raised |-> "",
              st |-> ExtractAfterAwait(ExtractBeforeAwait(before, message),
                                       message, AIFields(got))]

\* the states extraction is applied to: a fresh one, and one of a search
\* whose three fields are known
KnownState ==
    [default_state EXCEPT !.role_canon = <<"waiter">>, !.role_raw = <<"waiter">>,
                          !.role_display = <<"Waiter">>,
                          !.role_keywords = <<"Waiter">>,
                          !.resolved_role = <<"waiter">>,
                          !.role_query = <<"waiter">>,
                          !.location = <<"Edinburgh">>,
                          !.income_type = "full-time", !.phase = "ready"]

ExtractStates == { default_state, KnownState }

\* one call of extract_signals, or two calls on the same message, each
\* after a reset of the state
InitExtract ==
    /\ InitConversation
    /\ calc \in { [ op |-> "extract_signals", message |-> m, state |-> st,
                    outcome |-> c, outcome2 |-> c, done |-> FALSE,
                    raised |-> "", out |-> st, out2 |-> st ] :
                  m \in ExtractMessages, st \in ExtractStates,
                  c \in CompletionOutcomes }
              \cup
              { [ op |-> "extract_twice", message |-> m, state |-> st,
                  outcome |-> c, outcome2 |-> d, done |-> FALSE,
                  raised |-> "", out |-> st, out2 |-> st ] :
                  m \in ExtractMessages, st \in ExtractStates,
                  c \in CompletionOutcomes, d \in CompletionOutcomes }

ExtractSignals ==
    /\ calc.op = "extract_signals"
    /\ ~calc.done
    /\ \E r \in {extract_signals(calc.state, calc.message, calc.outcome)} :
           calc' = [calc EXCEPT !.done = TRUE, !.raised = r.raised,
                                !.out = r.st]
    /\ UNCHANGED conversation

\* reset, extract, reset, extract: the completion call ends with outcome
\* the first time and with outcome2 the second
ExtractTwice ==
    /\ calc.op = "extract_twice"
    /\ ~calc.done
    /\ \E r1 \in {extract_signals(clear_user_state(calc.state), calc.message,
                                   calc.outcome)} :
       \E r2 \in {extract_signals(clear_user_state(r1.st), calc.message,
                                   calc.outcome2)} :
           calc' = [calc EXCEPT !.done = TRUE, !.out = r1.st, !.out2 = r2.st]
    /\ UNCHANGED conversation

NextExtract == ExtractSignals \/ ExtractTwice

SpecExtract == InitExtract /\ [][NextExtract]_vars

(***************************************************************************)
(* app.py: one request to /chat                                            *)
(***************************************************************************)
InitLegacy ==
    /\ InitConversation
    /\ calc \in { [ op |-> "app_chat", message |-> m, outcome |-> o,
                    done |-> FALSE,
                    out |-> ChatResponse("", "", <<>>, AppDebug("", "", NoExc)) ] :
                  m \in Messages \cup {<<>>}, o \in AppOutcomes }

AppChat ==
    /\ calc.op = "app_chat"
    /\ ~calc.done
    /\ calc' = [calc EXCEPT !.done = TRUE,
                            !.out = app_chat(calc.message, calc.outcome)]
    /\ UNCHANGED conversation

NextLegacy == AppChat

SpecLegacy == InitLegacy /\ [][NextLegacy]_vars

(***************************************************************************)
(* ai/role_resolver.py: canonicalize_role applied to its own result        *)
(***************************************************************************)
MaxRoleLen == 4

\* filler words, words of time phrases, the words the normalization maps,
\* a word _clean_text splits, and plain role words
RoleWords ==
    {"a", "job", "part", "time", "waiting", "staff", "waitress", "(junior)",
     "chef"}

RECURSIVE RoleStrings(_)
RoleStrings(n) ==
    IF n = 0 THEN { <<>> }
    ELSE RoleStrings(n - 1) \cup
         { Append(x, w) : x \in RoleStrings(n - 1), w \in RoleWords }

InitCanon ==
    /\ InitConversation
    /\ calc \in { [ op |-> "canonicalize_role", text |-> x, done |-> FALSE,
                    once |-> <<>>, twice |-> <<>> ] :
                  x \in RoleStrings(MaxRoleLen) }

Canonicalize ==
    /\ calc.op = "canonicalize_role"
    /\ ~calc.done
    /\ \E once \in {canonicalize_role(calc.text)} :
           calc' = [calc EXCEPT !.done = TRUE, !.once = once,
                                !.twice = canonicalize_role(once)]
    /\ UNCHANGED conversation

NextCanon == Canonicalize

SpecCanon == InitCanon /\ [][NextCanon]_vars

(***************************************************************************)
(* core/chat_orchestrator.py: deduplication and ids, for every list of raw *)
(* listings                                                                *)
(***************************************************************************)
MaxListings == 2

\* a title or company name, character by character: "a" and "a|a"
ListingTexts == { <<"a">>, <<"a", "|", "a">> }

\* the records fetch_jobs builds from what the provider returns
RawListings ==
    { [title |-> t, company |-> c, location |-> <<"Edinburgh">>,
       redirect_url |-> u] :
      t \in ListingTexts, c \in ListingTexts, u \in { <<>>, <<"u1">> } }

RECURSIVE ListingLists(_)
ListingLists(n) ==
    IF n = 0 THEN { <<>> }
    ELSE ListingLists(n - 1) \cup
         { Append(l, j) : l \in ListingLists(n - 1), j \in RawListings }

InitIds ==
    /\ InitConversation
    /\ calc \in { [ op |-> "assign_ids", fetched |-> l, done |-> FALSE,
                    cards |-> <<>>, deck |-> <<>>, served |-> <<>>,
                    chat_served |-> <<>> ] :
                  l \in ListingLists(MaxListings) }

\* api/deck.py get_deck, the route main.py registers first: the cards of
\* the deck's ids, looked up in a dictionary of the cached cards by id (of
\* two cards with one id the later one), in the order of the ids
get_deck(st, deckId) ==
    IF st.current_deck = <<>> \/ st.current_deck[1].deck_id # deckId
    THEN [status |-> 404, jobs |-> <<>>]
    ELSE LET ids == st.current_deck[1].job_ids
             cached == st.cached_jobs
             by_id(jid) ==
                 cached[CHOOSE i \in 1..Len(cached) :
                           /\ cached[i].id = jid
                           /\ \A k \in (i + 1)..Len(cached) : cached[k].id # jid]
             found == SelectSeq(ids, LAMBDA jid :
                          \E i \in 1..Len(cached) : cached[i].id = jid)
         IN  [status |-> 200, jobs |-> [n \in 1..Len(found) |-> by_id(found[n])]]

\* api/chat.py get_deck: the cached cards whose id is one of the deck's
chat_get_deck(st, deckId) ==
    IF st.current_deck = <<>> \/ st.current_deck[1].deck_id # deckId
    THEN [status |-> 200, jobs |-> <<>>]
    ELSE LET ids == st.current_deck[1].job_ids
         IN  [status |-> 200,
              jobs |-> SelectSeq(st.cached_jobs, LAMBDA c :
                           \E n \in 1..Len(ids) : ids[n] = c.id)]

\* the fetch branch from the return of fetch_jobs, for a user whose role
\* and location are known, then the deck request for the deck it made
AssignIds ==
    /\ calc.op = "assign_ids"
    /\ ~calc.done
    /\ \E r \in {AfterFetch(KnownState, KnownState.resolved_role,
                             calc.fetched, 1)} :
           calc' = [calc EXCEPT
                       !.done = TRUE,
                       !.cards = r.st.cached_jobs,
                       !.deck = r.st.current_deck,
                       !.served = get_deck(r.st, 1).jobs,
                       !.chat_served = chat_get_deck(r.st, 1).jobs]
    /\ UNCHANGED conversation

NextIds == AssignIds

SpecIds == InitIds /\ [][NextIds]_vars

(***************************************************************************)
(* jobs/job_cards.py: score_job and to_job_cards, for every list of jobs   *)
(***************************************************************************)
MaxCards == 2

\* titles: plain ones, one of two characters, a strong marker, a word with
\* "sem" inside, and three words of the paid-search family without a marker
CardTitles ==
    { <<"chef">>, <<"driver">>, <<"hr">>, <<"ppc">>, <<"assembly">>,
      <<"google", "performance", "acquisition">> }

CardJob(title, company, location, description) ==
    [ title |-> title, company |-> company, location |-> location,
      redirect_url |-> <<>>, description |-> description ]

CardJobs ==
    { CardJob(t, <<"Acme">>, <<"Edinburgh">>, <<>>) : t \in CardTitles } \cup
    { CardJob(t, <<>>, <<"London">>, <<>>) : t \in CardTitles } \cup
    { CardJob(<<"driver">>, <<"Acme">>, <<"Edinburgh">>, <<"ppc">>),
      CardJob(<<"driver">>, <<"Acme">>, <<"Edinburgh">>, <<"google">>) }

CardRoles == { <<>>, <<"chef">>, <<"hr">>, <<"ppc">>, <<"assembly">> }

CardLocations == { <<>>, <<"Edinburgh">> }

RECURSIVE JobLists(_)
JobLists(n) ==
    IF n = 0 THEN { <<>> }
    ELSE JobLists(n - 1) \cup
         { Append(l, j) : l \in JobLists(n - 1), j \in CardJobs }

\* the jobs as the fetch branch hands them over: each with an id, here its
\* position in the provider's list
WithIds(jobs) ==
    [i \in 1..Len(jobs) |->
        [ id |-> i, title |-> jobs[i].title, company |-> jobs[i].company,
          location |-> jobs[i].location, redirect_url |-> jobs[i].redirect_url,
          description |-> jobs[i].description ]]

InitCards ==
    /\ InitConversation
    /\ calc \in { [ op |-> "to_job_cards", jobs |-> WithIds(l), role_canon |-> r,
                    location |-> loc, done |-> FALSE, metas |-> <<>>,
                    cards |-> <<>> ] :
                  l \in JobLists(MaxCards), r \in CardRoles,
                  loc \in CardLocations }

\* metas: score_job of every job, in the order of the input
ToJobCards ==
    /\ calc.op = "to_job_cards"
    /\ ~calc.done
    /\ calc' = [calc EXCEPT
                   !.done = TRUE,
                   !.metas = [i \in 1..Len(calc.jobs) |->
                                 score_job(calc.jobs[i], calc.role_canon,
                                           calc.location)],
                   !.cards = to_job_cards(calc.jobs, calc.role_canon,
                                          calc.location)]
    /\ UNCHANGED conversation

NextCards == ToJobCards

SpecCards == InitCards /\ [][NextCards]_vars

(***************************************************************************)
(* jobs/adzuna.py: _get_with_backoff step by step.  Time is counted in     *)
(* half seconds; random.uniform(0, 0.5) is 0 or 1 of them.                 *)
(***************************************************************************)
BASE_DELAY == 2

Finite(t) == [inf |-> FALSE, t |-> t]

\* a wait that no timer ends: asyncio.sleep of float("inf") or float("nan")
Endless == [inf |-> TRUE, t |-> 0]

\* the Retry-After header of a 429 answer: missing, a number of seconds, an
\* HTTP date, or a text float() reads as infinity
RetryAfterHeaders == {"", "3", "Wed, 21 Oct 2015 07:28:00 GMT", "inf"}

\* float(retry_after): the value, or ValueError
PyFloat(text) ==
    IF text = "3" THEN [raised |-> "", value |-> Finite(6)]
    ELSE IF text = "inf" THEN [raised |-> "", value |-> Endless]
    ELSE [raised |-> "ValueError", value |-> Finite(0)]

Jitters == {0, 1}

\* what one client.get gives: an exception of the client, or a status
HttpAnswers ==
    { [exc |-> "ConnectError", status |-> 0, retry_after |-> ""],
      [exc |-> "", status |-> 200, retry_after |-> ""],
      [exc |-> "", status |-> 500, retry_after |-> ""] } \cup
    { [exc |-> "", status |-> 429, retry_after |-> h] : h \in RetryAfterHeaders }

\* the wait after a 429 answer
WaitFor(answer, delay, jitter) ==
    IF answer.retry_after # "" /\ PyFloat(answer.retry_after).raised = ""
    THEN PyFloat(answer.retry_after).value
    ELSE Finite(delay + jitter)

InitBackoff ==
    /\ InitConversation
    /\ calc = [ op |-> "_get_with_backoff", pc |-> "get", attempt |-> 0,
                delay |-> BASE_DELAY, seen |-> <<>>, waits |-> <<>>,
                fallback |-> <<>>, error |-> "" ]

\* one pass of the loop up to the sleep: the request and the tests on its
\* status; seen is the answers so far, waits the sleeps, fallback whether
\* each sleep was delay plus jitter
Get(answer, jitter) ==
    /\ calc.op = "_get_with_backoff" /\ calc.pc = "get"
    /\ calc' =
          [calc EXCEPT
              !.attempt = @ + 1,
              !.seen = Append(@, IF answer.exc # "" THEN 0 ELSE answer.status),
              !.pc = IF answer.exc # "" THEN "raised"
                     ELSE IF answer.status < 400 THEN "returned"
                     ELSE IF answer.status = 429 THEN "sleep"
                     ELSE "raised",
              !.error = IF answer.exc # "" THEN answer.exc
                        ELSE IF answer.status >= 400 /\ answer.status # 429
                        THEN "HTTPStatusError" ELSE "",
              !.waits = IF answer.exc = "" /\ answer.status = 429
                        THEN Append(@, WaitFor(answer, calc.delay, jitter))
                        ELSE @,
              !.fallback = IF answer.exc = "" /\ answer.status = 429
                           THEN Append(@, WaitFor(answer, calc.delay, jitter)
                                              = Finite(calc.delay + jitter))
                           ELSE @]
    /\ UNCHANGED conversation

\* asyncio.sleep returns, the delay doubles, and the loop goes on or, after
\* the last attempt, ends in the RuntimeError
Wake ==
    /\ calc.op = "_get_with_backoff" /\ calc.pc = "sleep"
    /\ ~calc.waits[Len(calc.waits)].inf
    /\ calc' = [calc EXCEPT
                   !.delay = @ * 2,
                   !.pc = IF calc.attempt < MAX_TRIES THEN "get" ELSE "raised",
                   !.error = IF calc.attempt < MAX_TRIES THEN ""
                             ELSE "RuntimeError"]
    /\ UNCHANGED conversation

NextBackoff ==
    \/ \E answer \in HttpAnswers, jitter \in Jitters : Get(answer, jitter)
    \/ Wake

\* the event loop resumes the coroutine when the request is answered and
\* when a timer ends
SpecBackoff == InitBackoff /\ [][NextBackoff]_vars /\ WF_vars(NextBackoff)

(***************************************************************************)
(* jobs/adzuna.py: the response cache under concurrent fetches.  The cache *)
(* is one dictionary of the process; the clock is time.time() in seconds.  *)
(***************************************************************************)
_CACHE_TTL_SECONDS == 60

MaxTime == 81

\* the clock moves between two steps by one of these amounts
ClockSteps == {20, 41}

Callers == 1..2

\* the location argument of two conversations that search the same city
CallLocations == { <<"London">>, <<"london">> }

\* what the provider answers to one request: listings, or a failure
CacheAnswers ==
    { HttpOk(<<JobA>>), HttpOk(<<JobB, JobA2>>), HttpOk(<<>>), HttpStatus(500) }

\* normalize_role_for_api with the titles the resolver has loaded
NormalizeIn(titles, role) ==
    IF role = <<>> THEN <<>>
    ELSE build_search_keywords(
             PyOr(ResolveIn(titles, canonicalize_role(role)),
                  canonicalize_role(role)))

normalize_role_for_api(role) == NormalizeIn(_load_titles_canonical, role)

_build_what(role_keywords) == normalize_role_for_api(role_keywords)

(***************************************************************************)
(* core/chat_orchestrator.py, jobs/adzuna.py: the query the orchestrator   *)
(* stores and the `what` the adapter makes of it, for every role and for   *)
(* title datasets present and absent                                       *)
(***************************************************************************)
\* the canonical titles the resolver may have loaded: none (the data file
\* is absent), and two small datasets
TitleDatasets ==
    { <<>>,
      _load_titles_canonical,
      << <<"bar", "manager">>, <<"kitchen", "porter">> >> }

WhatRoleWords ==
    {"waiter", "waitress", "bartender", "barista", "chef", "junior",
     "software", "developer", "bar"}

\* the values role_canon may hold: canonical roles of one or two words
WhatRoles ==
    { canonicalize_role(x) :
        x \in { <<w>> : w \in WhatRoleWords } \cup
              { <<w, v>> : w \in WhatRoleWords, v \in WhatRoleWords } }

\* section 10 of chat_with_user: the role_query stored for a role
SearchQueryIn(titles, role) ==
    LET role_input == strip_time_modifiers(role)
    IN  build_search_keywords(
            strip_time_modifiers(PyOr(ResolveIn(titles, role_input), role_input)))

\* _build_what as fetch_jobs applies it to its role_keywords
BuildWhatIn(titles, role_keywords) == NormalizeIn(titles, role_keywords)

InitWhat ==
    /\ InitConversation
    /\ calc \in { [ op |-> "what", titles |-> ts, role |-> r, done |-> FALSE,
                    query |-> <<>>, what |-> <<>> ] :
                  ts \in TitleDatasets, r \in WhatRoles }

SearchAndBuildWhat ==
    /\ calc.op = "what"
    /\ ~calc.done
    /\ \E q \in {SearchQueryIn(calc.titles, calc.role)} :
           calc' = [calc EXCEPT !.done = TRUE, !.query = q,
                                !.what = BuildWhatIn(calc.titles, q)]
    /\ UNCHANGED conversation

NextWhat == SearchAndBuildWhat

SpecWhat == InitWhat /\ [][NextWhat]_vars

_cache_key(query, location, income_type) ==
    <<Lower(query), Lower(location), LowerTok(income_type)>>

\* a lookup that never looks at the age of the entry
_get_cached_any_age(cache, key, now) ==
    IF key \notin DOMAIN cache
    THEN [hit |-> FALSE, ts |-> 0, data |-> <<>>, cache |-> cache]
    ELSE [hit |-> TRUE, ts |-> cache[key].ts, data |-> cache[key].data,
          cache |-> cache]

\* _get_cached: the entry's data when it is at most the time-to-live old;
\* an older entry is popped; cache is the dictionary afterwards
_get_cached(cache, key, now) ==
    IF key \notin DOMAIN cache
    THEN [hit |-> FALSE, ts |-> 0, data |-> <<>>, cache |-> cache]
    ELSE IF now - cache[key].ts <= _CACHE_TTL_SECONDS
    THEN [hit |-> TRUE, ts |-> cache[key].ts, data |-> cache[key].data,
          cache |-> cache]
    ELSE [hit |-> FALSE, ts |-> 0, data |-> <<>>,
          cache |-> [k \in DOMAIN cache \ {key} |-> cache[k]]]

\* _CACHE[key] = (time.time(), data)
_set_cached(cache, key, now, data) ==
    [k \in DOMAIN cache \cup {key} |->
        IF k = key THEN [ts |-> now, data |-> data] ELSE cache[k]]

NoCall == [pc |-> "idle", key |-> <<>>, hit |-> FALSE, ts |-> 0, at |-> 0,
           data |-> <<>>]

InitCache ==
    /\ InitConversation
    /\ calc = [ op |-> "fetch_jobs", now |-> 0, cache |-> << >>,
                call |-> [t \in Callers |-> NoCall], popped |-> FALSE ]

Tick(d) ==
    /\ calc.op = "fetch_jobs"
    /\ calc.now + d <= MaxTime
    /\ calc' = [calc EXCEPT !.now = @ + d, !.popped = FALSE]
    /\ UNCHANGED conversation

\* fetch_jobs up to the request: the cached listings are returned, or the
\* call suspends in the request; popped tells that the lookup removed an
\* entry
FetchStart(t, role_keywords, location, income_type) ==
    /\ calc.op = "fetch_jobs" /\ calc.call[t].pc = "idle"
    /\ \E key \in {_cache_key(_build_what(role_keywords), location, income_type)} :
       \E got \in {_get_cached(calc.cache, key, calc.now)} :
           calc' = [calc EXCEPT
                       !.cache = got.cache,
                       !.popped = key \in DOMAIN calc.cache /\ ~got.hit,
                       !.call[t] = [ pc |-> IF got.hit THEN "done" ELSE "await",
                                     key |-> key, hit |-> got.hit,
                                     ts |-> got.ts, at |-> calc.now,
                                     data |-> got.data ]]
    /\ UNCHANGED conversation

\* the request is over: the listings are stored under the key and
\* returned, or the failure is absorbed and nothing is stored
FetchDone(t, answer) ==
    /\ calc.op = "fetch_jobs" /\ calc.call[t].pc = "await"
    /\ calc' = [calc EXCEPT
                   !.cache = IF answer.status < 400
                             THEN _set_cached(@, calc.call[t].key, calc.now,
                                              answer.results)
                             ELSE @,
                   !.popped = FALSE,
                   !.call[t] = [@ EXCEPT !.pc = "done", !.at = calc.now,
                                         !.data = answer.results]]
    /\ UNCHANGED conversation

\* the caller takes the listings; a later turn fetches again
FetchOver(t) ==
    /\ calc.op = "fetch_jobs" /\ calc.call[t].pc = "done"
    /\ calc' = [calc EXCEPT !.call[t] = NoCall, !.popped = FALSE]
    /\ UNCHANGED conversation

NextCache ==
    \/ \E d \in ClockSteps : Tick(d)
    \/ \E t \in Callers, location \in CallLocations :
           FetchStart(t, <<"chef">>, location, "job")
    \/ \E t \in Callers, answer \in CacheAnswers : FetchDone(t, answer)
    \/ \E t \in Callers : FetchOver(t)

SpecCache == InitCache /\ [][NextCache]_vars

(***************************************************************************)
(* Properties                                                              *)
(***************************************************************************)
RoleUnset(st) ==
    /\ st.role_canon = <<>> /\ st.role_display = <<>> /\ st.role_query = <<>>
    /\ st.resolved_role = <<>> /\ st.role_keywords = <<>> /\ st.role_raw = <<>>

ChatDone == last.kind = "chat"

\* C1: whatever the state held, the turn of a message that contains a reset
\* phrase ends with phase discovery, role, location and income type unset,
\* no cached jobs and no deck.
C1_ResetClearsAll ==
    (ChatDone /\ IsReset(last.msg)) =>
        /\ state.phase = "discovery"
        /\ RoleUnset(state)
        /\ state.location = <<>>
        /\ state.income_type = None
        /\ state.cached_jobs = <<>>
        /\ state.current_deck = <<>>

\* C1 witness: a reset issued after a swiped deck, with everything known
C1_Witness ==
    /\ ChatDone /\ IsReset(last.msg)
    /\ last.pre.phase = "post_swipe"
    /\ last.pre.cached_jobs # <<>> /\ last.pre.current_deck # <<>>
    /\ last.pre.location # <<>> /\ last.pre.income_type # None
    /\ state = default_state

\* what the extraction of one message can yield, over the completion results
MsgRoles(msg) ==
    {strip_time_modifiers(SignalsOf[<<msg, ai>>].role_canon) : ai \in AIResults}

MsgLocations(msg) ==
    {_best_city_match(SignalsOf[<<msg, ai>>].loc_candidate) :
        ai \in {a \in AIResults : SignalsOf[<<msg, a>>].loc_candidate # <<>>}}

MsgIncomes(msg) ==
    {SignalsOf[<<msg, ai>>].explicit_income : ai \in AIResults} \cup
    {SignalsOf[<<msg, ai>>].ai_income : ai \in AIResults} \cup {None}

ConsumingClarityPhases ==
    {"clarity_offer", "clarity_level", "clarity_interest", "clarity_constraints"}

PostReadyPhases ==
    {"ready", "results_found", "no_results", "post_swipe", "discuss_likes"}

\* the turn just answered ran the pivot step on a marker message
PivotTurn ==
    /\ ChatDone
    /\ _is_new_search_intent(last.msg)
    /\ ~IsReset(last.msg) /\ ~_is_reflective(last.msg)
    /\ last.pre.phase \notin ConsumingClarityPhases

DeckIdOf(st) == IF st.current_deck = <<>> THEN 0 ELSE st.current_deck[1].deck_id

\* C2 as stated: after the turn of any message with a new-search or pivot
\* marker, from any state, the role is not inherited, income type, cached
\* jobs and deck are cleared, jobs_shown is false, a known location is
\* retained, and the phase is a pre-ready phase.
C2_AsStated ==
    (ChatDone /\ _is_new_search_intent(last.msg)) =>
        /\ state.role_canon \in MsgRoles(last.msg) \cup {<<>>}
        /\ state.income_type \in MsgIncomes(last.msg)
        /\ state.cached_jobs = <<>>
        /\ state.current_deck = <<>>
        /\ ~state.jobs_shown
        /\ last.pre.location # <<>> => state.location = last.pre.location
        /\ state.phase \notin PostReadyPhases

\* C2 amended: a marker message that reaches the pivot step (no reset
\* phrase, not reflective, not consumed by the clarity pass) discards the
\* previous role, income type, cached jobs and deck; the location is
\* retained unless the extraction of this message yields one; the turn ends
\* in discovery with no cards, no deck and jobs_shown false, unless the
\* message completed the search inputs and a fresh search ran in the turn.
C2_PivotRestartsSearch ==
    PivotTurn =>
        /\ state.role_canon \in MsgRoles(last.msg)
        /\ state.income_type \in MsgIncomes(last.msg)
        /\ state.location \in {last.pre.location} \cup MsgLocations(last.msg)
        /\ IF last.fetched
           THEN /\ state.phase \in {"results_found", "no_results"}
                /\ state.phase = "no_results" =>
                       state.cached_jobs = <<>> /\ state.current_deck = <<>>
                /\ state.phase = "results_found" =>
                       DeckIdOf(state) # DeckIdOf(last.pre)
           ELSE /\ state.phase = "discovery"
                /\ state.cached_jobs = <<>>
                /\ state.current_deck = <<>>
                /\ ~state.jobs_shown

\* C2 witness: "actually software engineer" after a finished search in
\* Edinburgh: the city is kept, the income type is asked again
C2_Witness ==
    /\ PivotTurn
    /\ last.msg = <<"actually", "software", "engineer">>
    /\ last.pre.phase = "results_found"
    /\ last.pre.location = <<"Edinburgh">> /\ state.location = <<"Edinburgh">>
    /\ last.pre.income_type # None /\ state.income_type = None
    /\ last.pre.role_canon = <<"waiter">>
    /\ state.role_canon = <<"actually", "software", "engineer">>
    /\ state.cached_jobs = <<>> /\ state.current_deck = <<>>
    /\ ~state.jobs_shown /\ state.phase = "discovery"

\* the turn just answered ran the extraction in a post-ready phase, without
\* a pivot, and ended with a role, location or income type that differs
\* from the non-empty value held before
RoleChanged ==
    /\ _role_logic(last.pre) # <<>> /\ _role_logic(state) # <<>>
    /\ _role_logic(last.pre) # _role_logic(state)

LocationChanged ==
    /\ last.pre.location # <<>> /\ state.location # <<>>
    /\ Lower(last.pre.location) # Lower(state.location)

IncomeChanged ==
    /\ last.pre.income_type # None /\ state.income_type # None
    /\ last.pre.income_type # state.income_type

ChangeTurn ==
    /\ ChatDone
    /\ last.pre.phase \in PostReadyPhases
    /\ ~_is_greeting(last.msg) /\ ~IsReset(last.msg) /\ ~_is_ack(last.msg)
    /\ ~_is_reflective(last.msg) /\ ~_is_new_search_intent(last.msg)
    /\ RoleChanged \/ LocationChanged \/ IncomeChanged

KnownFieldsKept ==
    /\ last.pre.location # <<>> => state.location # <<>>
    /\ last.pre.income_type # None => state.income_type # None
    /\ ~LocationChanged => state.location = last.pre.location
    /\ ~IncomeChanged => state.income_type = last.pre.income_type
    /\ ~RoleChanged => _role_logic(state) = _role_logic(last.pre)

\* C3 as stated: after a turn whose extraction changed role, location or
\* income type in a post-ready phase, jobs_shown is false, there are no
\* cached jobs and no deck, the phase is a pre-results phase, the other
\* fields keep their values and readiness matches the state.
C3_AsStated ==
    ChangeTurn =>
        /\ ~state.jobs_shown
        /\ state.cached_jobs = <<>>
        /\ state.current_deck = <<>>
        /\ state.phase \notin PostReadyPhases
        /\ KnownFieldsKept
        /\ state.readiness = is_ready(state)

\* C3 amended: such a turn discards the previous results and keeps the
\* other fields; it then ends in discovery with jobs_shown false, no cards
\* and no deck, or, the search inputs being complete, with the results of
\* a fresh search run in the same turn (results_found with a new deck, or
\* no_results); readiness matches the state.
C3_ChangeRestartsSearch ==
    ChangeTurn =>
        /\ KnownFieldsKept
        /\ state.readiness = is_ready(state)
        /\ IF last.fetched
           THEN /\ state.phase \in {"results_found", "no_results"}
                /\ state.phase = "no_results" =>
                       /\ state.cached_jobs = <<>> /\ state.current_deck = <<>>
                       /\ ~state.jobs_shown
                /\ state.phase = "results_found" =>
                       DeckIdOf(state) # DeckIdOf(last.pre)
           ELSE /\ state.phase = "discovery"
                /\ state.cached_jobs = <<>>
                /\ state.current_deck = <<>>
                /\ ~state.jobs_shown

\* C3 witness: the role changes after a finished search; city and income
\* type are kept and the search is run again in the same turn
C3_Witness ==
    /\ ChangeTurn /\ RoleChanged
    /\ last.pre.phase = "results_found"
    /\ last.pre.location = <<"London">> /\ state.location = <<"London">>
    /\ last.pre.income_type = "part-time" /\ state.income_type = "part-time"
    /\ last.pre.role_canon = <<"chef">> /\ state.role_canon = <<"waiter">>
    /\ last.fetched /\ state.phase = "results_found"
    /\ DeckIdOf(state) # DeckIdOf(last.pre)

\* C4: a turn that starts in discovery and ends with role and location
\* present and the income type unset ends in phase awaiting_income_type,
\* and a reply that supplies only the location leaves the role alone.
C4_AsStated ==
    (ChatDone /\ last.pre.phase = "discovery") =>
        /\ (/\ _role_logic(state) # <<>> /\ state.location # <<>>
            /\ state.income_type = None)
               => state.phase = "awaiting_income_type"
        /\ (/\ _role_logic(last.pre) # <<>> /\ last.pre.location = <<>>
            /\ last.msg = <<"in", "edinburgh">>)
               => _role_logic(state) = _role_logic(last.pre)

\* the turn just answered started in discovery and ended with the role or
\* the location missing
StillMissing ==
    /\ ChatDone /\ last.pre.phase = "discovery"
    /\ _role_logic(state) = <<>> \/ state.location = <<>>

\* one question, the role first
PriorityQuestion ==
    /\ state.phase = "discovery"
    /\ ~last.fetched
    /\ last.resp.actions = NoAction /\ last.resp.links = <<>>
    /\ last.resp.assistantText =
           IF _role_logic(state) = <<>> THEN Q_ROLE ELSE Q_LOCATION

IncomeAskedOnlyWhenBothKnown ==
    (ChatDone /\ last.resp.intent = "ask_income_type") =>
        _role_logic(state) # <<>> /\ state.location # <<>>

\* C5 as stated: every turn that starts in discovery and ends with the role
\* or the location missing stays in discovery, fetches nothing and returns
\* the role question if the role is missing, otherwise the location
\* question; the income question is asked only with role and location known.
C5_AsStated ==
    /\ StillMissing => PriorityQuestion
    /\ IncomeAskedOnlyWhenBothKnown

\* C5 amended: the same, for the turns whose message is not a greeting, a
\* reset phrase, an acknowledgement or a reflective message.
C5_DiscoveryAsksInPriority ==
    /\ (/\ StillMissing
        /\ ~_is_greeting(last.msg) /\ ~IsReset(last.msg) /\ ~_is_ack(last.msg)
        /\ ~_is_reflective(last.msg)) => PriorityQuestion
    /\ IncomeAskedOnlyWhenBothKnown

\* C5 witness: a turn that supplies the role only is asked for the location
C5_Witness ==
    /\ StillMissing
    /\ last.msg = <<"waiter">>
    /\ last.pre.role_canon = <<>> /\ state.role_canon = <<"waiter">>
    /\ state.location = <<>>
    /\ state.phase = "discovery" /\ ~last.fetched
    /\ last.resp.assistantText = Q_LOCATION

\* the turn just answered is a reply to the income question: it started
\* with the question asked, role and location present and the income type
\* unset, and its message is an ordinary reply (no greeting, reset phrase,
\* acknowledgement, reflective wording or new-search marker)
IncomeReply ==
    /\ ChatDone
    /\ last.pre.asked_income_type /\ last.pre.income_type = None
    /\ _role_logic(last.pre) # <<>> /\ last.pre.location # <<>>
    /\ ~_is_greeting(last.msg) /\ ~IsReset(last.msg) /\ ~_is_ack(last.msg)
    /\ ~_is_reflective(last.msg) /\ ~_is_new_search_intent(last.msg)

\* roles and locations the completion call may name
AIRoles == {Lower(ai.role) : ai \in AIResults}

AILocations == {Lower(ai.location) : ai \in AIResults}

\* C6: the income question is not put a second time, and a reply that
\* contains "part" or "full" sets income_type accordingly and lets the
\* search proceed (phase ready, or the search already run in the turn) for
\* the role and location established before the question (or named by the
\* completion call).
C6_AsStated ==
    IncomeReply =>
        /\ last.resp.intent # "ask_income_type"
        /\ (Contains(last.msg, "part") \/ Contains(last.msg, "full")) =>
               /\ state.income_type =
                      IF Contains(last.msg, "part") THEN "part-time" ELSE "full-time"
               /\ state.phase = "ready" \/ last.fetched
               /\ _role_logic(state) \in {_role_logic(last.pre)} \cup AIRoles
               /\ Lower(state.location) \in
                      {Lower(last.pre.location)} \cup AILocations

\* the state a call suspended at fetch_jobs works on
FetchingStates == {objs[task[t].ref] : t \in {u \in Tasks : task[u].pc = "await_fetch"}}

FetchTriggered(st) ==
    _role_logic(st) # <<>> /\ st.location # <<>> /\ ~st.jobs_shown

\* the (title, company, location) keys of the listings the provider returned
ListingKeys ==
    {<<last.listings[i].title, last.listings[i].company,
       last.listings[i].location>> : i \in 1..Len(last.listings)}

CardKeys ==
    {<<state.cached_jobs[i].title, state.cached_jobs[i].company,
       state.cached_jobs[i].location>> : i \in 1..Len(state.cached_jobs)}

NoResultsOutcome ==
    /\ state.phase = "no_results"
    /\ ~state.jobs_shown
    /\ last.resp.mode = "no_results"
    /\ last.resp.jobs = <<>>
    /\ last.resp.actions = NoAction
    /\ last.resp.assistantText = "no_results_broaden"

ResultsFoundOutcome ==
    /\ state.phase = "results_found"
    /\ state.jobs_shown
    /\ Len(state.cached_jobs) = Cardinality(ListingKeys)
    /\ CardKeys = ListingKeys
    /\ \A i, j \in 1..Len(state.cached_jobs) :
           i < j => state.cached_jobs[i].score >= state.cached_jobs[j].score
    /\ state.current_deck # <<>>
    /\ DeckIdOf(state) = nextDeck /\ DeckIdOf(state) # DeckIdOf(last.pre)
    /\ state.current_deck[1].job_ids =
           [i \in 1..Len(state.current_deck[1].job_ids) |-> state.cached_jobs[i].id]
    /\ Len(state.current_deck[1].job_ids) \in {DECK_SIZE, Len(state.cached_jobs)}
    /\ state.current_deck[1].liked = <<>> /\ state.current_deck[1].passed = <<>>
    /\ ~state.current_deck[1].complete
    /\ last.resp.mode = "results_found"
    /\ last.resp.actions = OpenSwipe(DeckIdOf(state))

FetchOutcome ==
    (ChatDone /\ last.fetched) =>
        IF last.listings = <<>> THEN NoResultsOutcome ELSE ResultsFoundOutcome

YesReplies == {<<"yes">>, <<"yeah">>, <<"yep">>, <<"talk_yes">>}

\* the cards of st that the deck of st lists as liked and that carry a URL
LikedWithUrl(st) ==
    SelectSeq(st.cached_jobs,
              LAMBDA c : /\ c.redirect_url # <<>>
                         /\ \E i \in 1..Len(st.current_deck[1].liked) :
                                st.current_deck[1].liked[i] = c.id)

\* C8: the turn of a yes-shaped reply in phase post_swipe ends in phase
\* discuss_likes; the turn of a no-shaped reply ends in phase ready with
\* one link per liked card that has a URL; either way the deck and the
\* cached cards are those the swipes were submitted for.
C8_AsStated ==
    (/\ ChatDone /\ last.pre.phase = "post_swipe" /\ last.pre.current_deck # <<>>
     /\ last.msg \in YesReplies \cup NoWords \cup {<<"talk_no">>}) =>
        /\ state.current_deck = last.pre.current_deck
        /\ state.cached_jobs = last.pre.cached_jobs
        /\ IF last.msg \in YesReplies
           THEN state.phase = "discuss_likes"
           ELSE /\ state.phase = "ready"
                /\ [i \in 1..Len(last.resp.links) |-> last.resp.links[i].url] =
                   [i \in 1..Len(LikedWithUrl(last.pre)) |->
                       LikedWithUrl(last.pre)[i].redirect_url]

\* the part of the state the comparison is about; deck ids are fresh
\* uuids and are left out
View(st) ==
    [ phase |-> st.phase, role_canon |-> st.role_canon,
      role_display |-> st.role_display, location |-> st.location,
      income_type |-> st.income_type, cached_jobs |-> st.cached_jobs,
      deck |-> IF st.current_deck = <<>> THEN <<>>
               ELSE <<[st.current_deck[1] EXCEPT !.deck_id = 0]>> ]

\* the states one message can leave when it is processed alone, over all
\* results of the completion call and of the provider
AfterAwaitOutcomes(a) ==
    IF a.kind = "return" THEN {a.st}
    ELSE {AfterFetch(a.st, a.resolved, f, 0).st : f \in FetchResults}

BeforeAwaitOutcomes(r, m) ==
    IF r.kind \in {"return", "reset"} THEN {r.st}
    ELSE UNION {AfterAwaitOutcomes(
                    AfterAwait(r.st, m, r.prev_role, r.prev_loc, r.prev_income, ai)) :
                ai \in AIResults}

TurnOutcomes(st, m) == BeforeAwaitOutcomes(BeforeAwait(st, m), m)

\* the views two messages can leave when processed one after the other
SerialViews(m1, m2) ==
    {View(s2) : s2 \in UNION {TurnOutcomes(s1, m2) : s1 \in TurnOutcomes(default_state, m1)}}

BothDone == Len(conc.sent) = 2 /\ InFlight = {}

\* C9: the running calls of one conversation work on the one stored state
\* object, with no copy and no lock (unless a reset replaced the stored
\* object in between), and two messages that did not overlap leave a state
\* that processing them in their order of arrival produces; the witness is
\* an interleaving of two overlapping messages whose final state neither
\* serial order produces.
C9_SharedStateNoLock ==
    /\ (\A i \in 1..Len(conc.sent) : ~IsReset(conc.sent[i])) =>
           \A t \in InFlight : task[t].ref = cur
    /\ (BothDone /\ ~conc.overlap) =>
           View(state) \in SerialViews(conc.sent[1], conc.sent[2])

\* C9 witness: two overlapping messages, both answered, and a final state
\* that is the result of neither serial order: both ran the search, the
\* first got listings and a deck, the second got none and set no_results
\* over the cards and the deck of the first
C9_Witness ==
    /\ BothDone /\ conc.overlap
    /\ View(state) \notin SerialViews(conc.sent[1], conc.sent[2])
    /\ View(state) \notin SerialViews(conc.sent[2], conc.sent[1])
    /\ state.phase = "no_results" /\ state.cached_jobs # <<>>
    /\ state.current_deck # <<>>

\* C10: after a call was cancelled while suspended at the completion call
\* of the extraction, the conversation state is the state the turn
\* started from.
C10_AsStated ==
    last.kind = "cancelled_ai" => state = last.pre

\* the errors a failed provider request ends with
ProviderErrors ==
    {"RuntimeError: Adzuna rate-limited (429) after retries", "HTTPStatusError",
     "ConnectError", "ReadTimeout"}

NoResultsResponse ==
    make_response("no_results_broaden", "no_results", NoAction, <<>>, "no_results")

\* C11: the step that ends a fetch whose provider request failed (network
\* error, timeout, non-2xx status, 429 after the last retry) is the step of
\* a fetch that legitimately found nothing: the state becomes the state at
\* the fetch with phase no_results and jobs_shown false, the response is
\* the no-results response, and nothing of the provider error is in it.
C11_FailureIsNoResults ==
    [][(/\ last'.kind = "chat" /\ last'.fetched /\ last' # last
        /\ last'.error # "" \/ last'.listings = <<>>) =>
           /\ last'.listings = <<>>
           /\ state' = [state EXCEPT !.jobs_shown = FALSE, !.phase = "no_results"]
           /\ last'.resp = NoResultsResponse
           /\ last'.resp.assistantText \notin ProviderErrors
           /\ last'.resp.intent \notin ProviderErrors]_vars

\* C11 witness: the provider answered 429 to all five attempts
C11_Witness ==
    /\ ChatDone /\ last.fetched
    /\ last.error = "RuntimeError: Adzuna rate-limited (429) after retries"
    /\ state.phase = "no_results" /\ ~state.jobs_shown
    /\ last.resp = NoResultsResponse

\* the outcomes in which the completion call gives extraction nothing: it
\* raised, or its content is not JSON, or not a JSON object
FailedCompletions ==
    { c \in CompletionOutcomes : c.exc # "" \/ c.content.type # "object" }

\* the fields of out that an extraction from message could set without the
\* completion call
SetWithoutCompletion(before, message, out) ==
    LET sig == Signals(message, AIEmpty)
    IN  /\ out.role_canon \in {before.role_canon, sig.role_canon}
        /\ out.location \in {before.location, _best_city_match(sig.loc_candidate)}
        /\ out.income_type \in {before.income_type, sig.explicit_income}

\* C12: whatever the completion call does, extract_signals completes
\* without raising; when the call failed, role_canon, location and
\* income_type each hold what the rest of extraction sets from the message
\* alone, or what they held before
C12_ExtractionNeverRaises ==
    (calc.op = "extract_signals" /\ calc.done) =>
        /\ calc.raised = ""
        /\ calc.outcome \in FailedCompletions =>
               SetWithoutCompletion(calc.state, calc.message, calc.out)

C12_Witness ==
    /\ calc.op = "extract_signals" /\ calc.done
    /\ calc.outcome = CompletionReturns(JOther("array"))
    /\ calc.raised = ""
    /\ calc.state = KnownState
    /\ calc.out.role_canon = <<"chef">>
    /\ calc.out.location = calc.state.location

\* a response body the client can render: some text, and lists
WellFormed(body) ==
    /\ body.assistantText # ""
    /\ ~body.actions.none /\ ~body.jobs.none /\ ~body.links.none

\* C13: whatever chat_with_user did with a message (returned, or raised a
\* timeout, a validation error or any other exception), and for the empty
\* message too, the chat endpoint returns a body with a non-empty
\* assistantText whose jobs, actions and links are lists, and no exception
\* leaves the endpoint
C13_AlwaysWellFormedResponse ==
    last.kind = "chat" =>
        /\ last.out.raised = NoExc
        /\ WellFormed(last.out.body)

C13_Witness ==
    /\ last.kind = "chat"
    /\ last.exc.type = "TypeError"
    /\ last.out.raised = NoExc
    /\ last.out.body.assistantText = _friendly_error_message("INTERNAL")
    /\ last.out.body.jobs = PyList(<<>>)
    /\ last.pre.phase = "ready"

\* C14: when chat_with_user raised while a message was processed, nothing
\* of the exception (its message, its traceback) is in the response, which
\* is the same whatever the exception was
C14_AsStated ==
    (calc.op = "app_chat" /\ calc.done /\ calc.message # <<>>
        /\ calc.outcome.exc # NoExc) =>
        calc.out = ChatResponse("oops_something_went_wrong", "chat", <<>>,
                                AppDebug("", "", NoExc))

SameSearchFields(a, b) ==
    /\ a.role_canon = b.role_canon
    /\ a.location = b.location
    /\ a.income_type = b.income_type

UsableStrings(c) ==
    LET str(x) == IF x.t = "string" THEN x.s ELSE <<>>
    IN  IF c.exc # "" \/ c.content.type # "object" THEN <<<<>>, <<>>, <<>>>>
        ELSE <<str(c.content.role), str(c.content.location),
               str(c.content.income_type)>>

C16_CanonicalizeIdempotent ==
    (calc.op = "canonicalize_role" /\ calc.done) => calc.twice = calc.once

C16_Witness ==
    /\ calc.op = "canonicalize_role" /\ calc.done
    /\ calc.text = <<"waiting", "a", "part", "staff">>
    /\ calc.once = <<"waiter">>
    /\ calc.twice = <<"waiter">>

\* the phases the specification lists
ListedPhases ==
    {"discovery", "awaiting_income_type", "ready", "results_found",
     "no_results", "post_swipe", "discuss_likes"} \cup
    {"clarity_offer", "clarity_level", "clarity_interest",
     "clarity_constraints", "clarity_pick_role"}

\* the state dictionaries a turn can have written: the stored one and
\* those that running calls hold
LiveStates == { objs[cur] } \cup { objs[task[t].ref] : t \in InFlight }

CleanRole(st) ==
    \A i \in 1..Len(st.role_canon) :
        st.role_canon[i] \notin FILLER_WORDS \cup TIME_WORDS

\* role_display is what extraction derives from the role_canon in the state
DisplayFromCanon(st) ==
    st.role_display # <<>> => st.role_display = map_role_synonym(st.role_canon)

\* C18: in every state a turn leaves, role_canon holds no filler word and
\* no schedule or contract modifier, and role_display, when set, is the
\* display name derived from the current role_canon
C18_AsStated ==
    \A st \in LiveStates : CleanRole(st) /\ DisplayFromCanon(st)

\* C19: in every state income_type is unset or one of full-time,
\* part-time, temporary, freelance, internship, whatever the messages and
\* whatever income_type the completion call returns
C19_IncomeInVocabulary ==
    \A st \in LiveStates : st.income_type \in STANDARD_INCOME_TYPES \cup {None}

\* C19 witness: a turn whose message names no income type and answers no
\* income question ended with an income type, so the completion's wording
\* was normalized into the vocabulary and adopted
C19_Witness ==
    /\ last.kind = "chat" /\ last.exc = NoExc
    /\ last.pre.income_type = None /\ ~last.pre.asked_income_type
    /\ normalize_income_type(last.msg) = None
    /\ state.income_type = "part-time"

\* C20 as stated: after deduplication by (title, company, location) and
\* the assignment of ids, no two job cards of one result set share an id,
\* for every list of raw listings
C20_AsStated ==
    calc.op = "assign_ids" /\ calc.done =>
        \A i, k \in 1..Len(calc.cards) :
            calc.cards[i].id = calc.cards[k].id => i = k

CardsDone == calc.op = "to_job_cards" /\ calc.done

\* C21: to_job_cards returns exactly one card per input job, ordered by
\* score descending, cards of equal score in the order the provider
\* returned them
C21_OneCardPerJobStableOrder ==
    CardsDone =>
        /\ Len(calc.cards) = Len(calc.jobs)
        /\ {calc.cards[i].id : i \in 1..Len(calc.cards)} = 1..Len(calc.jobs)
        /\ \A i \in 1..Len(calc.cards) :
               LET j == calc.jobs[calc.cards[i].id]
               IN  /\ calc.cards[i].title = j.title
                   /\ calc.cards[i].company = j.company
                   /\ calc.cards[i].location = j.location
                   /\ calc.cards[i].redirect_url = j.redirect_url
                   /\ calc.cards[i].score = calc.metas[calc.cards[i].id].score
        /\ \A i, k \in 1..Len(calc.cards) :
               i < k => \/ calc.cards[i].score > calc.cards[k].score
                        \/ /\ calc.cards[i].score = calc.cards[k].score
                           /\ calc.cards[i].id < calc.cards[k].id

\* C21 witness: two different jobs of equal score come out as two cards in
\* the order of the input
C21_Witness ==
    /\ CardsDone /\ Len(calc.jobs) = 2
    /\ calc.metas[1].score = calc.metas[2].score
    /\ calc.jobs[1] # [calc.jobs[2] EXCEPT !.id = 1]
    /\ calc.cards[1].id = 1 /\ calc.cards[2].id = 2

\* C22: for every job, role and location the score of score_job is an
\* integer from 0 to 100
C22_ScoreInRange ==
    CardsDone =>
        \A i \in 1..Len(calc.metas) :
            calc.metas[i].score \in Int /\ calc.metas[i].score \in 0..100

\* C22 witness: a job that shares no token with a specialist role, shows
\* no marker, is elsewhere and names no company gets both penalties and no
\* bonus, the lowest score the weights allow
C22_Witness ==
    /\ CardsDone /\ Len(calc.jobs) >= 1
    /\ Overlap(calc.jobs[1], calc.role_canon) = 0
    /\ _strict_match_required(calc.role_canon)
    /\ calc.metas[1].score = 13

\* the words of a text, short ones included
Words(text) == {text[i] : i \in 1..Len(text)}

\* two jobs that differ in the title only
SameButTitle(a, b) ==
    /\ a.company = b.company /\ a.location = b.location
    /\ a.redirect_url = b.redirect_url /\ a.description = b.description

\* C23 as stated: for every role, of two jobs identical except that one
\* title fully matches the role's tokens and the other's title and
\* description hold none of them, the matching job scores strictly higher,
\* roles with tokens shorter than three characters included
C23_AsStated ==
    CardsDone /\ Len(calc.jobs) = 2 /\ calc.role_canon # <<>> =>
        ( /\ SameButTitle(calc.jobs[1], calc.jobs[2])
          /\ Words(calc.role_canon) \subseteq Words(calc.jobs[1].title)
          /\ Words(calc.role_canon) \cap
                 Words(TitleAndSnippet(calc.jobs[2])) = {}
          => calc.metas[1].score > calc.metas[2].score )

\* C24: the action of every card follows from its final score alone: Apply
\* exactly from 70, Consider exactly from 55 to 69, Skip below
C24_ActionFromScore ==
    CardsDone =>
        /\ \A i \in 1..Len(calc.metas) :
               LET m == calc.metas[i]
               IN  /\ m.action = "Apply" <=> m.score >= 70
                   /\ m.action = "Consider" <=> m.score >= 55 /\ m.score < 70
                   /\ m.action = "Skip" <=> m.score < 55
        /\ \A i \in 1..Len(calc.cards) :
               calc.cards[i].action = calc.metas[calc.cards[i].id].action

\* C24 witness: a score of exactly 55 gives Consider, next to a lower score
\* that gives Skip
C24_Witness ==
    /\ CardsDone /\ Len(calc.jobs) = 2
    /\ calc.metas[1].score = 55 /\ calc.metas[1].action = "Consider"
    /\ calc.metas[2].score < 55 /\ calc.metas[2].action = "Skip"

\* a role that names a paid-search specialism: ppc, adwords, sem, google
\* ads or paid search as words of the role
Specialism(role_canon) ==
    \/ Words(role_canon) \cap {"ppc", "adwords", "sem"} # {}
    \/ HasPair(role_canon, "google", "ads")
    \/ HasPair(role_canon, "paid", "search")

\* two jobs alike in location match and in having a company
Comparable(a, b, location) ==
    /\ (a.company # <<>>) <=> (b.company # <<>>)
    /\ HasRun(Lower(a.location), Lower(location)) <=>
           HasRun(Lower(b.location), Lower(location))

\* C30 as stated: for a specialist role a job that shows a strong marker
\* is never outranked by a comparable job that shows none, and a role that
\* is no specialism never gets the penalty (its scores stay at or above
\* 38, the lowest score without the penalty)
C30_AsStated ==
    CardsDone =>
        /\ _strict_match_required(calc.role_canon) /\ Len(calc.jobs) = 2
           /\ _strict_match_hit(TitleAndSnippet(calc.jobs[1]))
           /\ ~_strict_match_hit(TitleAndSnippet(calc.jobs[2]))
           /\ Comparable(calc.jobs[1], calc.jobs[2], calc.location)
           => calc.metas[1].score >= calc.metas[2].score
        /\ ~Specialism(calc.role_canon) =>
               \A i \in 1..Len(calc.metas) : calc.metas[i].score >= 38

\* the deck a state holds is the first min(DECK_SIZE, n) of its n cached
\* cards: their ids in rank order, none twice
DeckOverCached(deck, cached) ==
    /\ Len(deck.job_ids) = (IF Len(cached) < DECK_SIZE THEN Len(cached)
                             ELSE DECK_SIZE)
    /\ \A i \in 1..Len(deck.job_ids) : deck.job_ids[i] = cached[i].id
    /\ \A i, k \in 1..Len(deck.job_ids) :
           deck.job_ids[i] = deck.job_ids[k] => i = k

\* C25 as stated: a deck's job_ids are the ids of the first min(8, n)
\* cached cards in rank order, none twice; a new deck has empty liked and
\* passed lists and is not complete; the deck request returns exactly
\* those cards in that order
C25_AsStated ==
    calc.op = "assign_ids" /\ calc.done /\ calc.deck # <<>> =>
        /\ DeckOverCached(calc.deck[1], calc.cards)
        /\ calc.deck[1].liked = <<>> /\ calc.deck[1].passed = <<>>
        /\ ~calc.deck[1].complete
        /\ calc.served = Take(calc.cards, DECK_SIZE)
        /\ calc.chat_served = Take(calc.cards, DECK_SIZE)

BackoffOver == calc.pc \in {"returned", "raised"}

\* what the loop keeps to at every step: at most MAX_TRIES requests, a new
\* request only after a 429 answer, the wait after each 429 the header's
\* value or a doubling delay with waits that grow, an error at once on any
\* other failure, and an error after MAX_TRIES answers 429
BackoffSteps ==
    /\ calc.attempt <= MAX_TRIES /\ Len(calc.seen) = calc.attempt
    /\ \A i \in 1..(Len(calc.seen) - 1) : calc.seen[i] = 429
    /\ \A i, k \in 1..Len(calc.waits) :
           i < k /\ calc.fallback[i] /\ calc.fallback[k]
               => calc.waits[i].t < calc.waits[k].t
    /\ calc.pc = "returned" => calc.seen[calc.attempt] < 400 /\ calc.error = ""
    /\ calc.pc = "raised" =>
           /\ calc.error # ""
           /\ calc.seen[calc.attempt] = 429 => calc.attempt = MAX_TRIES
    /\ calc.pc = "get" => calc.attempt < MAX_TRIES
    /\ calc.pc = "sleep" => calc.seen[calc.attempt] = 429

\* C26 as stated: the request loop always terminates, after at most 5
\* attempts, retrying only on 429, waiting the Retry-After value or a
\* doubling delay, raising at once on another error status and failing
\* once every attempt was rate-limited
C26_AsStated == [](calc.op = "_get_with_backoff" => BackoffSteps) /\ <>BackoffOver

\* the listings of one whole answer of the provider
WholeResponses ==
    { a.results : a \in { b \in CacheAnswers : b.status < 400 } }

\* C27: the shared cache, keyed by the normalized query, location and
\* income type, never hands out an entry older than the time-to-live, a
\* lookup that finds an older entry removes it, and every entry and every
\* cached result is one whole answer of the provider, under every
\* interleaving of the fetches of two conversations for the same key
C27_CacheFreshAndWhole ==
    calc.op = "fetch_jobs" =>
        /\ \A k \in DOMAIN calc.cache :
               /\ calc.cache[k].data \in WholeResponses
               /\ calc.cache[k].ts <= calc.now
        /\ \A t \in Callers :
               calc.call[t].pc = "done" /\ calc.call[t].hit =>
                   /\ calc.call[t].at - calc.call[t].ts <= _CACHE_TTL_SECONDS
                   /\ calc.call[t].data \in WholeResponses
        /\ calc.popped =>
               \E t \in Callers : /\ calc.call[t].pc = "await"
                                   /\ calc.call[t].key \notin DOMAIN calc.cache

\* C27 witness: while one conversation's request for the key is still
\* open, the other, spelling the city differently, is handed an entry
\* exactly as old as the time-to-live
C27_Witness ==
    /\ calc.op = "fetch_jobs"
    /\ calc.call[2].pc = "await"
    /\ calc.call[1].pc = "done" /\ calc.call[1].hit
    /\ calc.call[1].key = calc.call[2].key
    /\ calc.call[1].at - calc.call[1].ts = _CACHE_TTL_SECONDS
    /\ calc.call[1].data = <<JobB, JobA2>>

\* one finished call of extract_signals
ExtractDone == calc.op = "extract_signals" /\ calc.done /\ calc.raised = ""

\* what the call had from each stage
PatternOf(message) == _extract_role_loc_regex(_first_clause(message))

CompletionOf(outcome) == AIFields(ai_keywords_get(extract_dynamic_keywords(outcome)))

\* the role fields after the candidate cand: those of its canonical form,
\* or the old ones when that is empty
RoleAdopted(st, old, cand) ==
    IF canonicalize_role(cand) # <<>>
    THEN st.role_canon = canonicalize_role(cand)
    ELSE st.role_canon = old.role_canon

LocationAdopted(st, old, cand) ==
    IF cand # <<>> THEN st.location = _best_city_match(cand)
    ELSE st.location = old.location

\* C28: per field the first stage with a result wins: for role and
\* location the pattern's value if non-empty, else the completion's if
\* non-empty, else the fallback; an income type named in the message or
\* already in the state is never overridden by the completion's
C28_StagePrecedence ==
    ExtractDone =>
        LET pattern == PatternOf(calc.message)
            ai == CompletionOf(calc.outcome)
            primary == _first_clause(calc.message)
            fallback == IF Len(_strip_fillers(primary)) > 6 THEN <<>>
                        ELSE _strip_fillers(primary)
            explicit == normalize_income_type(calc.message)
        IN  /\ RoleAdopted(calc.out, calc.state,
                   IF pattern[1] # <<>> THEN pattern[1]
                   ELSE IF ai.role # <<>> THEN ai.role ELSE fallback)
            /\ LocationAdopted(calc.out, calc.state,
                   IF pattern[2] # <<>> THEN pattern[2]
                   ELSE IF ai.location # <<>> THEN ai.location
                   ELSE LocFallback(primary))
            /\ explicit # None => calc.out.income_type = explicit
            /\ explicit = None /\ calc.state.income_type # None
                   => calc.out.income_type = calc.state.income_type

\* C28 witness: the pattern finds a role and a city, the completion names
\* another role, another city and another income type than the state's:
\* the pattern's role and city and the state's income type stand
C28_Witness ==
    /\ ExtractDone
    /\ PatternOf(calc.message)[1] # <<>> /\ PatternOf(calc.message)[2] # <<>>
    /\ CompletionOf(calc.outcome).role
           \notin {<<>>, PatternOf(calc.message)[1]}
    /\ Lower(CompletionOf(calc.outcome).location)
           \notin {<<>>, Lower(PatternOf(calc.message)[2])}
    /\ CompletionOf(calc.outcome).income_type # <<>>
    /\ normalize_income_type(calc.message) = None
    /\ calc.state.income_type = "full-time"
    /\ calc.out.income_type = "full-time"
    /\ calc.out.role_canon = canonicalize_role(PatternOf(calc.message)[1])
    /\ calc.out.location = _best_city_match(PatternOf(calc.message)[2])

\* the candidate extraction chose for the role, and whether it came from
\* the fallback stage
RoleCandidate(message, outcome) ==
    IF PatternOf(message)[1] # <<>> THEN PatternOf(message)[1]
    ELSE IF CompletionOf(outcome).role # <<>> THEN CompletionOf(outcome).role
    ELSE _strip_fillers(_first_clause(message))

FromFallback(message, outcome) ==
    PatternOf(message)[1] = <<>> /\ CompletionOf(outcome).role = <<>>

IsCityName(text) ==
    \E i \in 1..Len(UK_CITIES) : Lower(text) = Lower(UK_CITIES[i])

OnlyFillers(text) ==
    text # <<>> /\ \A i \in 1..Len(text) : text[i] \in FILLER_WORDS

SameRoleFields(a, b) ==
    /\ a.role_canon = b.role_canon /\ a.role_display = b.role_display
    /\ a.resolved_role = b.resolved_role /\ a.role_query = b.role_query
    /\ a.role_keywords = b.role_keywords /\ a.role_raw = b.role_raw

\* C29 as stated: a role candidate made of filler words only, a candidate
\* that is a recognized city name, and a fallback remainder of more than 6
\* tokens are never stored: the role fields stay as they were
C29_AsStated ==
    ExtractDone =>
        LET cand == RoleCandidate(calc.message, calc.outcome)
        IN  \/ OnlyFillers(cand)
            \/ IsCityName(cand)
            \/ FromFallback(calc.message, calc.outcome) /\ Len(cand) > 6
            => SameRoleFields(calc.out, calc.state)

\* a message the orchestrator classifies as reflective: it is no greeting,
\* no reset and no acknowledgement, and it holds a reflective word
ClassifiedReflective(low) ==
    /\ ~_is_greeting(low) /\ ~IsReset(low) /\ ~_is_ack(low)
    /\ _is_reflective(low)

\* a reflective message outside the clarity sub-flow is being answered, or
\* has just been answered
ReflectiveTurnDone ==
    /\ ChatDone /\ last.exc = NoExc
    /\ ClassifiedReflective(last.msg)
    /\ last.pre.phase \notin ClarityPhases

\* no call that holds a reflective message from outside the clarity
\* sub-flow is ever suspended at the completion call or at the provider
NoReflectiveSuspended ==
    \A t \in InFlight :
        ~(ClassifiedReflective(task[t].msg)
          /\ task[t].pre.phase \notin ClarityPhases)

HasContext(st) == _role_logic(st) # <<>> /\ st.location # <<>>

NoRoleReplies == { <<"in", "edinburgh">>, <<"yes">>, <<"no">> }

\* C32 as stated: the turn of a message that supplies no role ("in
\* edinburgh", "yes", "no") leaves an established role_canon as it was (or
\* as the completion call named it), and the results of the search for it
\* are not discarded unless the location changed
C32_AsStated ==
    (/\ ChatDone /\ last.exc = NoExc
     /\ last.msg \in NoRoleReplies
     /\ last.pre.role_canon # <<>>) =>
        /\ state.role_canon \in {last.pre.role_canon} \cup AIRoles
        /\ (/\ last.pre.cached_jobs # <<>>
            /\ Lower(state.location) = Lower(last.pre.location)
            /\ state.role_canon = last.pre.role_canon
            /\ state.income_type = last.pre.income_type)
           => state.cached_jobs = last.pre.cached_jobs

\* the search inputs are complete: a role, a location and an income type
\* of the vocabulary
SearchInputsKnown(st) ==
    /\ _role_logic(st) # <<>>
    /\ st.location # <<>>
    /\ st.income_type \in STANDARD_INCOME_TYPES

\* C33: under serial processing, whenever a call is suspended at
\* fetch_jobs, and whenever a turn that called fetch_jobs has ended, the
\* state holds a role, a location and an income type of the vocabulary
C33_FetchNeedsIncome ==
    /\ \A st \in FetchingStates : SearchInputsKnown(st)
    /\ (ChatDone /\ last.fetched) => SearchInputsKnown(state)

\* C33 witness: the call is suspended at fetch_jobs in the turn that
\* answered the income question
C33_Witness ==
    /\ task[1].pc = "await_fetch"
    /\ task[1].pre.asked_income_type /\ task[1].pre.income_type = None
    /\ SearchInputsKnown(objs[task[1].ref])

\* the search inputs of two states are the same
SameSearch(a, b) ==
    /\ _role_logic(a) = _role_logic(b)
    /\ Lower(a.location) = Lower(b.location)
    /\ a.income_type = b.income_type

\* C34 as stated: a turn that starts after a completed search (phase
\* results_found or no_results) and whose message is no reset and no pivot
\* calls the provider only when the role, the location or the income type
\* changed
C34_AsStated ==
    (/\ ChatDone /\ last.fetched
     /\ last.pre.phase \in {"results_found", "no_results"}
     /\ ~IsReset(last.msg) /\ ~_is_new_search_intent(last.msg)) =>
        ~SameSearch(state, last.pre)

\* the phase each offered value stands for, by the phase it was offered in
OfferedTransition(phase, value) ==
    CASE value = <<"clarity_yes">> -> "clarity_level"
      [] value = <<"clarity_no">> -> "discovery"
      [] value = <<"continue_search">> -> "discovery"
      [] value = <<"talk_yes">> -> "discuss_likes"
      [] value = <<"talk_no">> -> "ready"
      [] OTHER -> phase

\* C35 as stated: a canonical value of the YES_NO action, echoed back in
\* the phase the offering response left, is never handed to extraction (no
\* call holding it is suspended at the completion call or the provider),
\* and its turn ends in the phase the offer stands for
C35_AsStated ==
    /\ \A t \in InFlight : task[t].msg \notin EchoValues(task[t].pre.phase)
    /\ (ChatDone /\ last.exc = NoExc /\ last.msg \in EchoValues(last.pre.phase))
           => state.phase = OfferedTransition(last.pre.phase, last.msg)

\* the steps of the clarity sub-flow that only ask and record
ClarityQuestions ==
    {"clarity_offer", "clarity_level", "clarity_interest", "clarity_constraints"}

\* the step after each step of the clarity sub-flow
ClarityNext(phase) ==
    CASE phase = "clarity_offer" -> "clarity_level"
      [] phase = "clarity_level" -> "clarity_interest"
      [] phase = "clarity_interest" -> "clarity_constraints"
      [] phase = "clarity_constraints" -> "clarity_pick_role"
      [] OTHER -> "discovery"

\* a turn that started in the clarity sub-flow with a message that is no
\* reset has ended
ClarityTurnDone ==
    /\ ChatDone /\ last.exc = NoExc
    /\ last.pre.phase \in ClarityPhases
    /\ ~IsReset(last.msg)

\* the search of st: role, location, income type, results and deck
SearchPart(st) ==
    [ role_canon |-> st.role_canon, role_display |-> st.role_display,
      location |-> st.location, income_type |-> st.income_type,
      jobs_shown |-> st.jobs_shown, cached_jobs |-> st.cached_jobs,
      current_deck |-> st.current_deck ]

\* while the phase is one of the four questions a turn leaves the search
\* as it was and calls neither the completion nor the provider
ClarityQuestionsFrozen ==
    /\ (ClarityTurnDone /\ last.pre.phase \in ClarityQuestions) =>
           /\ SearchPart(state) = SearchPart(last.pre)
           /\ ~last.fetched
    /\ \A t \in InFlight : task[t].pre.phase \notin ClarityQuestions

\* the turn kept the step, moved to the next one, or declined the offer
StepKeptOrNext ==
    \/ state.phase = last.pre.phase
    \/ state.phase = ClarityNext(last.pre.phase)
    \/ last.pre.phase = "clarity_offer" /\ state.phase = "discovery"

SwipeDone == last.kind = "swipe"

\* the request carried the id of the deck the state held
CurrentDeckRequested ==
    /\ last.pre.current_deck # <<>>
    /\ last.pre.current_deck[1].deck_id = last.deckId

\* a deck request for an id that is not the current deck's gets no cards
\* from either get_deck (reading the deck changes no state)
DeckRequestRejected ==
    \A d \in 1..MaxDecks :
        (state.current_deck = <<>> \/ state.current_deck[1].deck_id # d) =>
            /\ get_deck(state, d) = [status |-> 404, jobs |-> <<>>]
            /\ chat_get_deck(state, d).jobs = <<>>

\* C37: a deck request whose deckId is not the current deck's gets no
\* cards; a swipe submission whose deckId is not the current deck's (there
\* is no deck, or the deck was replaced) is rejected and leaves the state
\* as it was; a submission with the current deck's id records liked and
\* passed, marks the deck complete and sets phase post_swipe, and changes
\* nothing else
C37_OnlyCurrentDeckAccepted ==
    /\ DeckRequestRejected
    /\ SwipeDone =>
           IF CurrentDeckRequested
           THEN /\ last.resp.intent = "swipe_submitted"
                /\ state.phase = "post_swipe"
                /\ state.current_deck[1].complete
                /\ state = [last.pre EXCEPT
                               !.phase = "post_swipe",
                               !.current_deck =
                                   <<[last.pre.current_deck[1] EXCEPT
                                          !.liked = state.current_deck[1].liked,
                                          !.passed = state.current_deck[1].passed,
                                          !.complete = TRUE]>>]
           ELSE /\ last.resp.intent = "DECK_EXPIRED"
                /\ state = last.pre

\* C37 witness: a submission for the first deck after a second search
\* replaced it was rejected
C37_Witness ==
    /\ SwipeDone
    /\ last.pre.current_deck # <<>>
    /\ last.pre.current_deck[1].deck_id = 2
    /\ last.deckId = 1
    /\ last.resp.intent = "DECK_EXPIRED"
    /\ state = last.pre

\* the ids a sequence of ids holds
IdsOf(ids) == {ids[i] : i \in 1..Len(ids)}

\* C38 as stated: after an accepted swipe submission the deck's liked and
\* passed ids are disjoint subsets of its job_ids, and the submission
\* changed neither the deck's deck_id and job_ids nor the cached cards
C38_AsStated ==
    (SwipeDone /\ last.resp.intent = "swipe_submitted") =>
        LET deck == state.current_deck[1]
        IN  /\ IdsOf(deck.liked) \subseteq IdsOf(deck.job_ids)
            /\ IdsOf(deck.passed) \subseteq IdsOf(deck.job_ids)
            /\ IdsOf(deck.liked) \cap IdsOf(deck.passed) = {}
            /\ deck.deck_id = last.pre.current_deck[1].deck_id
            /\ deck.job_ids = last.pre.current_deck[1].job_ids
            /\ state.cached_jobs = last.pre.cached_jobs

(***************************************************************************)
(* C39: in every state reachable by serial processing of messages and      *)
(* swipe submissions, jobs_shown = true implies that cached_jobs is        *)
(* non-empty and that a deck with non-empty job_ids exists; phase          *)
(* results_found or post_swipe implies jobs_shown = true; phase no_results *)
(* implies jobs_shown = false.                                             *)
(***************************************************************************)
ShownHasCardsAndDeck ==
    state.jobs_shown =>
        /\ state.cached_jobs # <<>>
        /\ state.current_deck # <<>>
        /\ state.current_deck[1].job_ids # <<>>

ResultPhasesShown ==
    state.phase \in { "results_found", "post_swipe" } => state.jobs_shown

NoResultsNotShown ==
    state.phase = "no_results" => ~state.jobs_shown

C39_SearchStateInvariant ==
    /\ ShownHasCardsAndDeck
    /\ ResultPhasesShown
    /\ NoResultsNotShown

\* a search found listings and a swipe submission for its deck was accepted
C39_Witness ==
    /\ SwipeDone
    /\ state.phase = "post_swipe"
    /\ state.jobs_shown
    /\ state.current_deck[1].job_ids # <<>>

(***************************************************************************)
(* C40: the keyword string the adapter sends to the provider as `what`     *)
(* (and uses in the cache key) equals the role_query built by              *)
(* build_search_keywords and stored in the state: normalizing the built    *)
(* query again in the adapter changes nothing, for every role, the         *)
(* synonym-expanded ones included, with or without a title dataset.        *)
(***************************************************************************)
WhatDone == calc.op = "what" /\ calc.done

C40_AsStated == WhatDone => calc.what = calc.query

====
